---- MODULE Spec2Model ----
(***************************************************************************)
(* A model of the amazon-cloudwatch-agent-operator core:                   *)
(*   - the ServiceAccounts reconciler (pkg/collector/reconcile), run       *)
(*     against a store that an external actor edits concurrently;          *)
(*   - the collector manifest builder, as far as its tests pin it;         *)
(*   - the versioned upgrade chain and its steps (pkg/collector/upgrade),  *)
(*     in the chain and called one at a time;                              *)
(*   - the upgrade of managed Instrumentations (ManagedInstances).         *)
(***************************************************************************)
EXTENDS Integers, Sequences, FiniteSets, TLC

VARIABLES
    instance,    \* the AmazonCloudWatchAgent the pass reconciles (params.Instance)
    store,       \* the live ServiceAccounts: (namespace, name) -> object
    pc,          \* where the reconcile pass is
    queue,       \* expectedServiceAccounts: the desired objects still to handle
    existing,    \* expectedServiceAccounts: the object Get returned, <<>> if none
    items,       \* deleteServiceAccounts: list.Items still to handle
    err,         \* what ServiceAccounts returns ("none": nil)
    calls,       \* history: the store calls this pass issued, with their results
    liveAtList,  \* history: the store as the List call saw it, <<>> before it
    ours,        \* history: objects a pass created that nobody else touched since
    base,        \* history: the store when the first pass after the last edit began
    clean,       \* history: no external or instance edit since base was taken
    prevEnd,     \* history: <<store>> at the end of the preceding pass if it
                 \* succeeded and nothing was edited since, else <<>>
    passes,      \* passes started
    envEvents,   \* external edits, instance edits and injected store errors so far
    upSpec,      \* upgrade: the specification as upgraded so far (config, version)
    upInput,     \* upgrade: the specification ManagedInstance was given
    upIdx,       \* upgrade: the next entry of the registry to look at
    upRan,       \* upgrade history: versions of the steps invoked, in order
    upEvents,    \* upgrade history: events the steps recorded
    upErr,       \* upgrade: the error the chain returns ("none": nil)
    upPc,        \* upgrade: "run" while the chain iterates, then "done"
    otelcol,     \* step calls: the specification object the caller holds
    stepLog,     \* step calls: what each call was given and what it gave back
    parsed,      \* step calls: <<the text last parsed and what the parser returned>>
    instStore,   \* instrumentation upgrade: the live Instrumentations, by name
    instItems,   \* ManagedInstances: list.Items still to handle
    instListed,  \* history: <<the names List returned, in order>>, <<>> before it
    instHandled, \* history: the calls of upgrade, with what each was given and gave
    instPc,      \* ManagedInstances: where it is
    instErr,     \* ManagedInstances: what it returns ("none": nil)
    instUpdates, \* history: the Update calls ManagedInstances issued
    instEvents,  \* history: the events upgrade recorded
    gateEnabled, \* the feature gate of each language: enabled or not
    instFaults,  \* injected store errors so far
    params,      \* builder: the specification handed to the builder
    rendered,    \* builder: the objects it returned, <<>> before it ran
    buildPc,     \* builder: "ready" before the call, "rendered" after it
    workloadManagedBy,  \* builder: the managed-by value of workload and config map
    agentConfig, \* defaults: the agent configuration the operator was started with
    built,       \* defaults history: what getDefaultInstrumentation returned, by input
    javaDefault, \* defaulter: w.cfg.AutoInstrumentationJavaImage()
    admitted,    \* defaulter: the Instrumentation under admission
    defaulted,   \* defaulter history: <<what the last call was given and left>>
    candidate,   \* validation: the Instrumentation handed to the validator
    verdict,     \* validation: <<the warnings and the error it returned>>
    routes,      \* detection: what the probe of the cluster answers now
    current,     \* detection: openshiftRoutesWrapper.current
    task,        \* detection: where each goroutine is in AutoDetect, and its ora
    detectLog,   \* detection history: the steps of the AutoDetect calls, in order
    routeChanges, \* detection: changes of the cluster so far
    life         \* life cycle history: how each Instrumentation got its Java image

reconcileVars == <<instance, store, pc, queue, existing, items, err, calls,
                   liveAtList, ours, base, clean, prevEnd, passes, envEvents>>
upgradeVars == <<upSpec, upInput, upIdx, upRan, upEvents, upErr, upPc>>

stepVars == <<otelcol, stepLog, parsed>>
instrVars == <<instStore, instItems, instListed, instHandled, instPc, instErr,
               instUpdates, instEvents, gateEnabled, instFaults>>
buildVars == <<params, rendered, buildPc, workloadManagedBy>>

defaultsVars == <<agentConfig, built, javaDefault, admitted, defaulted>>
validateVars == <<candidate, verdict>>
detectVars == <<routes, current, task, detectLog, routeChanges>>
lifeVars == <<life>>
vars == <<reconcileVars, upgradeVars, stepVars, instrVars, buildVars, defaultsVars,
          validateVars, detectVars, lifeVars>>

\* What a reconcile step leaves alone: the other components' state.
notReconcile ==
    <<upgradeVars, stepVars, instrVars, buildVars, defaultsVars,
      validateVars, detectVars, lifeVars>>

(***************************************************************************)
(* Bounds of the model.                                                    *)
(***************************************************************************)
MaxPasses == 2
MaxEnvEvents == 2
MaxStepCalls == 2
MaxInstFaults == 1

(***************************************************************************)
(* The instance and the names derived from it.                             *)
(***************************************************************************)
InstanceName == "test"
InstanceNamespace == "test"
OtherNamespace == "other"

ModeSidecar == "sidecar"
Modes == {"deployment", "daemonset", "statefulset", ModeSidecar}
ServiceAccountOverrides == {"", "my-special-sa"}
Instances == [mode : Modes, serviceAccount : ServiceAccountOverrides]

ManagedByKey == "app.kubernetes.io/managed-by"
InstanceKey == "app.kubernetes.io/instance"
ComponentKey == "app.kubernetes.io/component"
NameKey == "app.kubernetes.io/name"
PartOfKey == "app.kubernetes.io/part-of"
VersionKey == "app.kubernetes.io/version"

\* The value deleteServiceAccounts selects on.
OperatorManagedBy == "amazon-cloudwatch-agent-operator"
\* The value the rendered ServiceAccount carries.
ServiceAccountManagedBy == "opentelemetry-operator"

\* fmt.Sprintf("%s.%s", params.Instance.Namespace, params.Instance.Name)
InstanceLabelValue == InstanceNamespace \o "." \o InstanceName

\* naming.ServiceAccount(instance.Name), as the rendered objects show it.
CollectorServiceAccountName == InstanceName \o "-collector"

\* The owner reference SetControllerReference writes: the instance, as controller.
ControllerReference == [kind |-> "AmazonCloudWatchAgent", name |-> InstanceName,
                        controller |-> TRUE]

EmptyMap == [k \in {} |-> ""]

\* Go's "for k, v := range src { dst[k] = v }".
Overlay(dst, src) ==
    [k \in DOMAIN dst \cup DOMAIN src |-> IF k \in DOMAIN src THEN src[k] ELSE dst[k]]

ObjectId(o) == <<o.ns, o.name>>

(***************************************************************************)
(* collector.ServiceAccount(instance): the object the builder renders.     *)
(***************************************************************************)
ServiceAccountLabels ==
    (ComponentKey :> "opentelemetry-collector") @@
    (InstanceKey :> InstanceLabelValue) @@
    (ManagedByKey :> ServiceAccountManagedBy) @@
    (NameKey :> CollectorServiceAccountName) @@
    (PartOfKey :> "opentelemetry") @@
    (VersionKey :> "latest")

ServiceAccount(inst) ==
    [ns |-> InstanceNamespace, name |-> CollectorServiceAccountName,
     labels |-> ServiceAccountLabels, annotations |-> EmptyMap,
     owner |-> <<>>, rv |-> 0]

\* A faulty variant: the override is ignored.
desiredServiceAccountsIgnoringOverride(inst) ==
    IF inst.mode # ModeSidecar THEN <<ServiceAccount(inst)>> ELSE <<>>

desiredServiceAccounts(inst) ==
    IF inst.mode # ModeSidecar /\ inst.serviceAccount = ""
    THEN <<ServiceAccount(inst)>>
    ELSE <<>>

\* A faulty variant: the owner reference is not set.
WithoutControllerReference(obj) == obj

\* controllerutil.SetControllerReference(&params.Instance, &desired, params.Scheme)
SetControllerReference(obj) == [obj EXCEPT !.owner = <<ControllerReference>>]

(***************************************************************************)
(* The merge of expectedServiceAccounts and the patch it sends.            *)
(***************************************************************************)
\* A faulty variant: the desired owner references are appended, not assigned.
MergeAppendingOwners(live, desired) ==
    [live EXCEPT !.owner = live.owner \o desired.owner,
                 !.annotations = Overlay(live.annotations, desired.annotations),
                 !.labels = Overlay(live.labels, desired.labels)]

\* updated := existing.DeepCopy(), then the three assignments.
Merge(live, desired) ==
    [live EXCEPT !.owner = desired.owner,
                 !.annotations = Overlay(live.annotations, desired.annotations),
                 !.labels = Overlay(live.labels, desired.labels)]

\* The keys of a JSON merge patch from map a to map b: what b adds or changes.
\* (The merge never removes a key, so the patch has no nulls.)
MapDiff(a, b) ==
    LET ks == {k \in DOMAIN b : k \notin DOMAIN a \/ a[k] # b[k]}
    IN  [k \in ks |-> b[k]]

\* client.MergeFrom(existing) with updated: the JSON merge patch. The object's
\* resourceVersion is the same in both and so is not part of the patch.
MergeFrom(from, to) ==
    [labels |-> MapDiff(from.labels, to.labels),
     annotations |-> MapDiff(from.annotations, to.annotations),
     owner |-> IF from.owner = to.owner THEN <<>> ELSE <<to.owner>>]

\* The store applying a merge patch to the object it holds now: maps are
\* merged key by key, a list is replaced; the version moves on a change.
ApplyPatch(live, p) ==
    LET merged == [live EXCEPT !.labels = Overlay(live.labels, p.labels),
                               !.annotations = Overlay(live.annotations, p.annotations),
                               !.owner = IF p.owner = <<>> THEN live.owner ELSE p.owner[1]]
    IN  IF merged = live THEN live ELSE [merged EXCEPT !.rv = live.rv + 1]

(***************************************************************************)
(* The selector of deleteServiceAccounts.                                  *)
(***************************************************************************)
\* A faulty variant: the namespace option is dropped.
MatchesSelectorAnyNamespace(o) ==
    /\ InstanceKey \in DOMAIN o.labels /\ o.labels[InstanceKey] = InstanceLabelValue
    /\ ManagedByKey \in DOMAIN o.labels /\ o.labels[ManagedByKey] = OperatorManagedBy

\* client.InNamespace(...), client.MatchingLabels(...)
MatchesSelector(o) ==
    /\ o.ns = InstanceNamespace
    /\ InstanceKey \in DOMAIN o.labels /\ o.labels[InstanceKey] = InstanceLabelValue
    /\ ManagedByKey \in DOMAIN o.labels /\ o.labels[ManagedByKey] = OperatorManagedBy

\* The inner loop of deleteServiceAccounts: is the listed object to be kept?
Kept(o, expected) ==
    \E i \in 1..Len(expected) : expected[i].name = o.name /\ expected[i].ns = o.ns

Without(s, id) == [i \in DOMAIN s \ {id} |-> s[i]]
With(s, id, o) == [i \in DOMAIN s \cup {id} |-> IF i = id THEN o ELSE s[i]]

\* Every order in which the members of a set can be listed.
RECURSIVE Orders(_)
Orders(S) ==
    IF S = {} THEN {<<>>}
    ELSE UNION {{<<x>> \o t : t \in Orders(S \ {x})} : x \in S}

(***************************************************************************)
(* The store's other users.                                                *)
(***************************************************************************)
SelectorLabels ==
    (InstanceKey :> InstanceLabelValue) @@ (ManagedByKey :> OperatorManagedBy)

\* What an external actor may write under a name.
Templates ==
    { [labels |-> SelectorLabels, annotations |-> EmptyMap, owner |-> <<>>],
      [labels |-> SelectorLabels @@ ("team" :> "x"),
       annotations |-> ("note" :> "x"),
       owner |-> <<[kind |-> "Other", name |-> "other", controller |-> FALSE]>>],
      [labels |-> (ManagedByKey :> OperatorManagedBy), annotations |-> EmptyMap,
       owner |-> <<>>] }

Object(id, t, rv) ==
    [ns |-> id[1], name |-> id[2], labels |-> t.labels,
     annotations |-> t.annotations, owner |-> t.owner, rv |-> rv]

CollectorId == <<InstanceNamespace, CollectorServiceAccountName>>
OrphanId == <<InstanceNamespace, "b">>
ForeignId == <<OtherNamespace, "b">>
EditableIds == {CollectorId, OrphanId}

Call(op, id, res) == [op |-> op, id |-> id, res |-> res]

(***************************************************************************)
(* Init                                                                    *)
(***************************************************************************)
\* No upgrade is under way.
UpgradeIdle ==
    /\ upSpec = <<>>
    /\ upInput = <<>>
    /\ upIdx = 0
    /\ upRan = <<>>
    /\ upEvents = <<>>
    /\ upErr = "none"
    /\ upPc = "idle"

\* No step is being called directly.
StepIdle ==
    /\ otelcol = <<>>
    /\ stepLog = <<>>
    /\ parsed = <<>>

\* No instrumentation upgrade is under way.
InstrIdle ==
    /\ instStore = <<>>
    /\ instItems = <<>>
    /\ instListed = <<>>
    /\ instHandled = <<>>
    /\ instPc = "off"
    /\ instErr = "none"
    /\ instUpdates = <<>>
    /\ instEvents = <<>>
    /\ gateEnabled = <<>>
    /\ instFaults = 0

\* The builder is not in use.
BuildIdle ==
    /\ params = <<>>
    /\ rendered = <<>>
    /\ buildPc = "off"
    /\ workloadManagedBy = ""

\* No default is being built and nothing is under admission.
DefaultsIdle ==
    /\ agentConfig = <<>>
    /\ built = {}
    /\ javaDefault = ""
    /\ admitted = <<>>
    /\ defaulted = <<>>

\* Nothing is being validated.
ValidateIdle ==
    /\ candidate = <<>>
    /\ verdict = <<>>

\* No detection runs.
DetectIdle ==
    /\ routes = ""
    /\ current = ""
    /\ task = <<>>
    /\ detectLog = <<>>
    /\ routeChanges = 0

\* No life cycle is followed.
LifeIdle == life = <<>>

\* The components added last are all idle.
OthersIdle == ValidateIdle /\ DetectIdle /\ LifeIdle

Init ==
    /\ instance = [mode |-> "deployment", serviceAccount |-> ""]
    /\ \E c \in Templates \cup {<<>>}, b \in Templates \cup {<<>>} :
         LET s0 == (ForeignId :> Object(ForeignId,
                        [labels |-> SelectorLabels, annotations |-> EmptyMap,
                         owner |-> <<>>], 1))
             s1 == IF c = <<>> THEN s0 ELSE With(s0, CollectorId, Object(CollectorId, c, 1))
             s2 == IF b = <<>> THEN s1 ELSE With(s1, OrphanId, Object(OrphanId, b, 1))
         IN  store = s2
    /\ pc = "idle"
    /\ queue = <<>>
    /\ existing = <<>>
    /\ items = <<>>
    /\ err = "none"
    /\ calls = <<>>
    /\ liveAtList = <<>>
    /\ ours = {}
    /\ base = <<>>
    /\ clean = FALSE
    /\ prevEnd = <<>>
    /\ passes = 0
    /\ envEvents = 0
    /\ UpgradeIdle
    /\ StepIdle
    /\ InstrIdle
    /\ BuildIdle
    /\ DefaultsIdle
    /\ OthersIdle

(***************************************************************************)
(* ServiceAccounts: one pass, one store call per step.                     *)
(***************************************************************************)
\* ServiceAccounts is entered: desired := desiredServiceAccounts(params).
StartPass ==
    /\ UNCHANGED notReconcile
    /\ pc \in {"idle", "done"}
    /\ passes < MaxPasses
    /\ passes' = passes + 1
    /\ pc' = "expected"
    /\ queue' = desiredServiceAccounts(instance)
    /\ existing' = <<>>
    /\ items' = <<>>
    /\ err' = "none"
    /\ calls' = <<>>
    /\ liveAtList' = <<>>
    /\ prevEnd' = IF clean /\ pc = "done" /\ err = "none" THEN <<store>> ELSE <<>>
    /\ base' = IF clean THEN base ELSE <<store>>
    /\ clean' = TRUE
    /\ UNCHANGED <<instance, store, ours, envEvents>>

\* A faulty variant: the error is logged and the pass goes on.
FailAndContinue(op, id, res, what) ==
    /\ calls' = Append(calls, Call(op, id, res))
    /\ UNCHANGED <<err, pc>>

\* "return fmt.Errorf(...)": the failed call ends the pass.
Fail(op, id, res, what) ==
    /\ calls' = Append(calls, Call(op, id, res))
    /\ err' = what
    /\ pc' = "done"

\* expectedServiceAccounts: SetControllerReference, then Client.Get.
GetStep ==
    /\ UNCHANGED notReconcile
    /\ pc = "expected"
    /\ queue # <<>>
    /\ LET desired == SetControllerReference(Head(queue))
           id == ObjectId(desired)
       IN  \/ /\ envEvents < MaxEnvEvents
              /\ envEvents' = envEvents + 1
              /\ Fail("Get", id, "Error", "get")
              /\ UNCHANGED existing
           \/ /\ id \notin DOMAIN store
              /\ calls' = Append(calls, Call("Get", id, "NotFound"))
              /\ pc' = "create"
              /\ UNCHANGED <<existing, err, envEvents>>
           \/ /\ id \in DOMAIN store
              /\ existing' = <<store[id]>>
              /\ calls' = Append(calls, Call("Get", id, "ok"))
              /\ pc' = "patch"
              /\ UNCHANGED <<err, envEvents>>
    /\ UNCHANGED <<instance, store, queue, items, liveAtList, ours, base, clean,
                   prevEnd, passes>>

\* expectedServiceAccounts: Client.Create after a NotFound.
CreateStep ==
    /\ UNCHANGED notReconcile
    /\ pc = "create"
    /\ LET desired == SetControllerReference(Head(queue))
           id == ObjectId(desired)
       IN  \/ /\ envEvents < MaxEnvEvents
              /\ envEvents' = envEvents + 1
              /\ Fail("Create", id, "Error", "create")
              /\ UNCHANGED <<store, queue, ours>>
           \/ /\ id \in DOMAIN store
              /\ Fail("Create", id, "AlreadyExists", "create")
              /\ UNCHANGED <<store, queue, ours, envEvents>>
           \/ /\ id \notin DOMAIN store
              /\ store' = With(store, id, [desired EXCEPT !.rv = 1])
              /\ calls' = Append(calls, [op |-> "Create", id |-> id, res |-> "ok",
                                         sent |-> desired])
              /\ ours' = ours \cup {id}
              /\ queue' = Tail(queue)
              /\ pc' = "expected"
              /\ UNCHANGED <<err, envEvents>>
    /\ UNCHANGED <<instance, existing, items, liveAtList, base, clean, prevEnd, passes>>

\* expectedServiceAccounts: the merge, client.MergeFrom(existing), Client.Patch.
PatchStep ==
    /\ UNCHANGED notReconcile
    /\ pc = "patch"
    /\ LET desired == SetControllerReference(Head(queue))
           id == ObjectId(desired)
           updated == Merge(existing[1], desired)
           patch == MergeFrom(existing[1], updated)
       IN  \/ /\ envEvents < MaxEnvEvents
              /\ envEvents' = envEvents + 1
              /\ Fail("Patch", id, "Error", "patch")
              /\ UNCHANGED <<store, queue>>
           \/ /\ id \notin DOMAIN store
              /\ Fail("Patch", id, "NotFound", "patch")
              /\ UNCHANGED <<store, queue, envEvents>>
           \/ /\ id \in DOMAIN store
              /\ store' = [store EXCEPT ![id] = ApplyPatch(store[id], patch)]
              /\ calls' = Append(calls, [op |-> "Patch", id |-> id, res |-> "ok",
                                         desired |-> desired,
                                         read |-> existing[1], sent |-> updated,
                                         patch |-> patch, before |-> store[id],
                                         after |-> ApplyPatch(store[id], patch)])
              /\ queue' = Tail(queue)
              /\ pc' = "expected"
              /\ UNCHANGED <<err, envEvents>>
    /\ UNCHANGED <<instance, existing, items, liveAtList, ours, base, clean, prevEnd,
                   passes>>

\* A faulty variant: the deletions do not wait for the expected objects.
ExpectedStarted(q) == TRUE

\* expectedServiceAccounts has returned nil: its loop went through every
\* expected object.
ExpectedDone(q) == q = <<>>

\* deleteServiceAccounts: Client.List with the namespace and the two labels.
ListStep ==
    /\ UNCHANGED notReconcile
    /\ pc = "expected"
    /\ ExpectedDone(queue)
    /\ \/ /\ envEvents < MaxEnvEvents
          /\ envEvents' = envEvents + 1
          /\ Fail("List", <<InstanceNamespace, "">>, "Error", "list")
          /\ UNCHANGED <<items, liveAtList>>
       \/ /\ \E order \in Orders({id \in DOMAIN store : MatchesSelector(store[id])}) :
                items' = [i \in 1..Len(order) |-> store[order[i]]]
          /\ liveAtList' = <<store>>
          /\ calls' = Append(calls, Call("List", <<InstanceNamespace, "">>, "ok"))
          /\ pc' = "delete"
          /\ UNCHANGED <<err, envEvents>>
    /\ UNCHANGED <<instance, store, queue, existing, ours, base, clean, prevEnd, passes>>

\* deleteServiceAccounts: one round of the loop over list.Items.
DeleteStep ==
    /\ UNCHANGED notReconcile
    /\ pc = "delete"
    /\ items # <<>>
    /\ LET o == Head(items)
           id == ObjectId(o)
           del == ~Kept(o, desiredServiceAccounts(instance))
       IN  \/ /\ ~del
              /\ items' = Tail(items)
              /\ UNCHANGED <<store, calls, err, pc, ours, envEvents>>
           \/ /\ del
              /\ envEvents < MaxEnvEvents
              /\ envEvents' = envEvents + 1
              /\ Fail("Delete", id, "Error", "delete")
              /\ UNCHANGED <<store, items, ours>>
           \/ /\ del
              /\ id \notin DOMAIN store
              /\ Fail("Delete", id, "NotFound", "delete")
              /\ UNCHANGED <<store, items, ours, envEvents>>
           \/ /\ del
              /\ id \in DOMAIN store
              /\ store' = Without(store, id)
              /\ calls' = Append(calls, Call("Delete", id, "ok"))
              /\ ours' = ours \ {id}
              /\ items' = Tail(items)
              /\ UNCHANGED <<err, pc, envEvents>>
    /\ UNCHANGED <<instance, queue, existing, liveAtList, base, clean, prevEnd, passes>>

\* ServiceAccounts returns nil.
FinishPass ==
    /\ UNCHANGED notReconcile
    /\ pc = "delete"
    /\ items = <<>>
    /\ pc' = "done"
    /\ UNCHANGED <<instance, store, queue, existing, items, err, calls, liveAtList,
                   ours, base, clean, prevEnd, passes, envEvents>>

(***************************************************************************)
(* The environment.                                                        *)
(***************************************************************************)
\* Another client of the store writes, creates or deletes a service account.
ExternalEdit ==
    /\ UNCHANGED notReconcile
    /\ envEvents < MaxEnvEvents
    /\ envEvents' = envEvents + 1
    /\ \E id \in EditableIds :
         /\ \/ /\ id \in DOMAIN store
               /\ store' = Without(store, id)
            \/ \E t \in Templates :
                 LET rv == IF id \in DOMAIN store THEN store[id].rv + 1 ELSE 1
                     o == Object(id, t, rv)
                 IN  /\ id \in DOMAIN store =>
                           [store[id] EXCEPT !.rv = 0] # [o EXCEPT !.rv = 0]
                     /\ store' = With(store, id, o)
         /\ ours' = ours \ {id}
    /\ clean' = FALSE
    /\ UNCHANGED <<instance, pc, queue, existing, items, err, calls, liveAtList,
                   base, prevEnd, passes>>

\* The instance's specification is edited between two passes; what the last
\* pass returned is gone.
EditInstance ==
    /\ UNCHANGED notReconcile
    /\ pc \in {"idle", "done"}
    /\ envEvents < MaxEnvEvents
    /\ envEvents' = envEvents + 1
    /\ \E i \in Instances \ {instance} : instance' = i
    /\ pc' = "idle"
    /\ err' = "none"
    /\ calls' = <<>>
    /\ liveAtList' = <<>>
    /\ clean' = FALSE
    /\ UNCHANGED <<store, queue, existing, items, ours, base, prevEnd, passes>>

(***************************************************************************)
(* Configuration texts and documents (adapters.ConfigFromString,           *)
(* yaml.Marshal).  A text is empty, unparseable, or the YAML of a document *)
(* in the author's own layout or in the layout yaml.Marshal produces.      *)
(***************************************************************************)
EmptyText == [kind |-> "empty"]
\* A text of white space only: not of length 0, and nothing in it to parse.
BlankText == [kind |-> "blank"]
InvalidText == [kind |-> "invalid"]
YamlText(doc, style) == [kind |-> "yaml", doc |-> doc, style |-> style]

Scalar == [isMap |-> FALSE]
\* The value cfg["receivers"] of a document without that key.
Absent == [isMap |-> FALSE, absent |-> TRUE]
Fields(fs) == [isMap |-> TRUE, fields |-> fs]
Receivers(es) == [isMap |-> TRUE, entries |-> es]

\* A document: its receivers section and the names of its other top-level
\* sections.
Document(receivers, sections) == [receivers |-> receivers, sections |-> sections]
\* The document with no key at all.
EmptyDocument == Document(Absent, {})

\* Receiver names with strings.HasPrefix(name, "influxdb").
InfluxdbPrefixed == {"influxdb", "influxdb/2"}
\* Field names with strings.HasPrefix(name, "metrics_schema").
MetricsSchemaPrefixed == {"metrics_schema", "metrics_schema_v2"}
\* Keys the YAML parser reads as something other than a string (the integer
\* 1): the type assertion k.(string) panics on them.
NonStringKeys == {"1"}

Documents ==
    { Document(Scalar, {"exporters"}),
      Document(Absent, {"exporters", "service"}),
      Document(Receivers(("otlp" :> Fields({"endpoint"}))), {"exporters"}),
      Document(Receivers(("influxdb" :> Fields({"endpoint"}))), {}),
      Document(Receivers(("influxdb" :> Fields({"endpoint", "metrics_schema"})) @@
                         ("otlp" :> Fields({"endpoint"}))),
               {"exporters", "service"}),
      Document(Receivers(("influxdb" :> Fields({"metrics_schema",
                                                "metrics_schema_v2"})) @@
                         ("influxdb/2" :> Scalar)), {"exporters"}),
      Document(Receivers(("influxdb/2" :> Fields({"endpoint", "metrics_schema_v2"}))),
               {}),
      Document(Receivers(("1" :> Fields({"endpoint"}))), {"exporters"}),
      Document(Receivers(("influxdb" :> Fields({"metrics_schema", "1"}))),
               {"exporters"}),
      Document(Receivers(("influxdb/2" :> Scalar) @@ ("1" :> Scalar)),
               {"exporters"}) }

Texts ==
    {EmptyText, BlankText, InvalidText} \cup
    {YamlText(d, st) : d \in Documents, st \in {"author", "marshalled"}}

\* A faulty variant: a text with nothing in it is refused.
ConfigFromStringRefusingBlank(text) ==
    CASE text.kind \in {"empty", "blank", "invalid"} -> [err |-> "ErrInvalidYAML"]
      [] OTHER -> [err |-> "none", doc |-> text.doc]

\* A faulty variant: a document is returned beside the error.
ConfigFromStringKeepingDocument(text) ==
    CASE text.kind \in {"empty", "blank"} -> [err |-> "none", doc |-> EmptyDocument]
      [] text.kind = "invalid" -> [err |-> "ErrInvalidYAML", doc |-> EmptyDocument]
      [] OTHER -> [err |-> "none", doc |-> text.doc]

\* adapters.ConfigFromString: the document, or nil and ErrInvalidYAML (the
\* result then has no doc).
ConfigFromString(text) ==
    CASE text.kind \in {"empty", "blank"} -> [err |-> "none", doc |-> EmptyDocument]
      [] text.kind = "invalid" -> [err |-> "ErrInvalidYAML"]
      [] OTHER -> [err |-> "none", doc |-> text.doc]

\* yaml.Marshal: the document in the marshaller's layout. (A document that
\* came out of the parser always serializes.)
Marshal(doc) == YamlText(doc, "marshalled")

(***************************************************************************)
(* The upgrade steps.  A step's result: the configuration the specification *)
(* object holds when the step is left, the error, the events it recorded,   *)
(* and whether it was left by a panic (then nothing is returned).           *)
(***************************************************************************)
StepResult(config, error, events) ==
    [config |-> config, err |-> error, events |-> events, panicked |-> FALSE]

Panic(config, events) ==
    [config |-> config, err |-> "none", events |-> events, panicked |-> TRUE]

upgrade0_2_10(config) == {StepResult(config, "none", <<>>)}

\* A faulty variant: the configuration is cleared when it does not parse.
ParseFailureClearingConfig(config) == StepResult(EmptyText, "parse", <<>>)

\* "return otelcol, fmt.Errorf(... failed to parse configuration ...)"
ParseFailure(config) == StepResult(config, "parse", <<>>)

\* u.Recorder.Event(updated, "Normal", "Upgrade", "... from %q receiver")
DropEvent(k) == [type |-> "Normal", reason |-> "Upgrade", receiver |-> k]

\* The loop over one influxdb receiver's fields, taken in the given order.
RECURSIVE WalkFields(_, _, _, _)
WalkFields(fields, order, k, events) ==
    IF order = <<>>
    THEN [panicked |-> FALSE, fields |-> fields, events |-> events]
    ELSE LET f == Head(order)
         IN  IF f \in NonStringKeys
             THEN [panicked |-> TRUE, fields |-> fields, events |-> events]
             ELSE IF f \in MetricsSchemaPrefixed
                  THEN WalkFields(fields \ {f}, Tail(order), k,
                                  Append(events, DropEvent(k)))
                  ELSE WalkFields(fields, Tail(order), k, events)

\* The loop of upgrade0_31_0 over the receivers, taken in the given order,
\* each receiver's fields in the order fieldOrders gives.
RECURSIVE WalkReceivers(_, _, _, _)
WalkReceivers(entries, order, fieldOrders, events) ==
    IF order = <<>>
    THEN [early |-> FALSE, panicked |-> FALSE, entries |-> entries, events |-> events]
    ELSE LET k == Head(order)
             v == entries[k]
         IN  IF k \in NonStringKeys
             THEN [early |-> FALSE, panicked |-> TRUE, entries |-> entries,
                   events |-> events]
             ELSE IF k \in InfluxdbPrefixed
                  THEN IF ~v.isMap
                       THEN [early |-> TRUE, panicked |-> FALSE, entries |-> entries,
                             events |-> events]
                       ELSE LET w == WalkFields(v.fields, fieldOrders[k], k, events)
                            IN  IF w.panicked
                                THEN [early |-> FALSE, panicked |-> TRUE,
                                      entries |-> entries, events |-> w.events]
                                ELSE WalkReceivers(
                                         [entries EXCEPT ![k] = Fields(w.fields)],
                                         Tail(order), fieldOrders, w.events)
                  ELSE WalkReceivers(entries, Tail(order), fieldOrders, events)

FieldsOf(v) == IF v.isMap THEN v.fields ELSE {}

\* Every way of ordering the fields of each receiver.
FieldOrders(entries) ==
    {fo \in [DOMAIN entries ->
                UNION {Orders(FieldsOf(entries[k])) : k \in DOMAIN entries}] :
        \A k \in DOMAIN entries : fo[k] \in Orders(FieldsOf(entries[k]))}

\* upgrade0_31_0: every result the iteration order of the maps allows.
upgrade0_31_0(config) ==
    IF config.kind = "empty"
    THEN {StepResult(config, "none", <<>>)}
    ELSE LET cfg == ConfigFromString(config)
         IN  IF cfg.err # "none"
             THEN {ParseFailure(config)}
             ELSE IF ~cfg.doc.receivers.isMap
                  THEN {StepResult(config, "none", <<>>)}
                  ELSE LET entries == cfg.doc.receivers.entries
                           walks == {WalkReceivers(entries, order, fo, <<>>) :
                                         order \in Orders(DOMAIN entries),
                                         fo \in FieldOrders(entries)}
                       IN  {IF w.panicked
                            THEN Panic(config, w.events)
                            ELSE IF w.early
                                 THEN StepResult(config, "none", w.events)
                                 ELSE StepResult(
                                          Marshal([cfg.doc EXCEPT
                                                    !.receivers = Receivers(w.entries)]),
                                          "none", w.events) : w \in walks}

\* A later step, as the registry of the design has one: it changes nothing.
upgrade0_40_0(config) == {StepResult(config, "none", <<>>)}

(***************************************************************************)
(* The upgrade chain.                                                      *)
(***************************************************************************)
\* The registry, in ascending version order.
Steps ==
    << [version |-> <<0, 2, 10>>, step |-> "upgrade0_2_10"],
       [version |-> <<0, 31, 0>>, step |-> "upgrade0_31_0"],
       [version |-> <<0, 40, 0>>, step |-> "upgrade0_40_0"] >>

RunStep(step, config) ==
    CASE step = "upgrade0_2_10" -> upgrade0_2_10(config)
      [] step = "upgrade0_31_0" -> upgrade0_31_0(config)
      [] OTHER -> upgrade0_40_0(config)

\* A faulty variant: a step also runs when the stored version equals its own.
GreaterOrEqual(a, b) ==
    IF b = <<>> THEN TRUE
    ELSE \/ a[1] > b[1]
         \/ a[1] = b[1] /\ a[2] > b[2]
         \/ a[1] = b[1] /\ a[2] = b[2] /\ a[3] >= b[3]

\* Semantic-version order; an absent version (<<>>) is below every version.
GreaterThan(a, b) ==
    IF b = <<>> THEN TRUE
    ELSE \/ a[1] > b[1]
         \/ a[1] = b[1] /\ a[2] > b[2]
         \/ a[1] = b[1] /\ a[2] = b[2] /\ a[3] > b[3]

\* The versions a specification may carry when the chain reads it.
StoredVersions ==
    {<<>>, <<0, 1, 0>>, <<0, 2, 10>>, <<0, 31, 0>>, <<0, 35, 0>>, <<0, 40, 0>>}

\* No reconcile pass is under way.
ReconcileIdle ==
    /\ instance = [mode |-> "deployment", serviceAccount |-> ""]
    /\ store = <<>>
    /\ pc = "idle"
    /\ queue = <<>>
    /\ existing = <<>>
    /\ items = <<>>
    /\ err = "none"
    /\ calls = <<>>
    /\ liveAtList = <<>>
    /\ ours = {}
    /\ base = <<>>
    /\ clean = FALSE
    /\ prevEnd = <<>>
    /\ passes = 0
    /\ envEvents = 0

\* What an upgrade step leaves alone: the other components' state.
notUpgrade ==
    <<reconcileVars, stepVars, instrVars, buildVars, defaultsVars,
      validateVars, detectVars, lifeVars>>

InitUpgrade ==
    /\ ReconcileIdle
    /\ \E v \in StoredVersions, t \in Texts :
         /\ upInput = [config |-> t, version |-> v]
         /\ upSpec = [config |-> t, version |-> v]
    /\ upIdx = 1
    /\ upRan = <<>>
    /\ upEvents = <<>>
    /\ upErr = "none"
    /\ upPc = "run"
    /\ StepIdle
    /\ InstrIdle
    /\ BuildIdle
    /\ DefaultsIdle
    /\ OthersIdle

\* The chain reaches a step above the running version and applies it.
ApplyStep ==
    /\ UNCHANGED notUpgrade
    /\ upPc = "run"
    /\ upIdx <= Len(Steps)
    /\ GreaterThan(Steps[upIdx].version, upSpec.version)
    /\ upRan' = Append(upRan, Steps[upIdx].version)
    /\ \E r \in RunStep(Steps[upIdx].step, upSpec.config) :
         /\ upEvents' = upEvents \o r.events
         /\ \/ /\ ~r.panicked
               /\ r.err = "none"
               /\ upSpec' = [config |-> r.config, version |-> Steps[upIdx].version]
               /\ upIdx' = upIdx + 1
               /\ UNCHANGED <<upErr, upPc>>
            \/ /\ ~r.panicked
               /\ r.err # "none"
               /\ upSpec' = [upSpec EXCEPT !.config = r.config]
               /\ upErr' = r.err
               /\ upPc' = "done"
               /\ UNCHANGED upIdx
            \/ /\ r.panicked
               /\ upPc' = "panicked"
               /\ UNCHANGED <<upSpec, upIdx, upErr>>
    /\ UNCHANGED upInput

\* The chain passes over a step the running version has already reached.
SkipStep ==
    /\ UNCHANGED notUpgrade
    /\ upPc = "run"
    /\ upIdx <= Len(Steps)
    /\ ~GreaterThan(Steps[upIdx].version, upSpec.version)
    /\ upIdx' = upIdx + 1
    /\ UNCHANGED <<upSpec, upInput, upRan, upEvents, upErr, upPc>>

\* The registry is exhausted: the chain returns the upgraded specification.
FinishUpgrade ==
    /\ UNCHANGED notUpgrade
    /\ upPc = "run"
    /\ upIdx > Len(Steps)
    /\ upPc' = "done"
    /\ UNCHANGED <<upSpec, upInput, upIdx, upRan, upEvents, upErr>>

NextUpgrade ==
    \/ ApplyStep
    \/ SkipStep
    \/ FinishUpgrade

SpecUpgrade == InitUpgrade /\ [][NextUpgrade]_vars

(***************************************************************************)
(* The steps called one at a time on a specification object the caller     *)
(* holds by pointer.                                                       *)
(***************************************************************************)
InitStep ==
    /\ ReconcileIdle
    /\ UpgradeIdle
    /\ InstrIdle
    /\ BuildIdle
    /\ DefaultsIdle
    /\ OthersIdle
    /\ \E t \in Texts : otelcol = [config |-> t]
    /\ stepLog = <<>>
    /\ parsed = <<>>

\* What a step call leaves alone: the other components' state.
notStep ==
    <<reconcileVars, upgradeVars, instrVars, buildVars, defaultsVars,
      validateVars, detectVars, lifeVars>>

\* A step may be called: after a panic there is no further call.
Callable ==
    /\ Len(stepLog) < MaxStepCalls
    /\ stepLog # <<>> => ~stepLog[Len(stepLog)].panicked

\* A step is left with result r. Every return statement of a step returns the
\* pointer it was given, so what the step assigned to otelcol.Spec.Config is
\* in the caller's object as well as in the returned one.
Returned(step, r) ==
    /\ otelcol' = [otelcol EXCEPT !.config = r.config]
    /\ stepLog' = Append(stepLog,
                         [step |-> step, given |-> otelcol.config,
                          returned |-> r.config, err |-> r.err,
                          events |-> r.events, panicked |-> r.panicked])
    /\ UNCHANGED parsed

\* upgrade0_2_10(u, &otelcol)
CallUpgrade0_2_10 ==
    /\ UNCHANGED notStep
    /\ Callable
    /\ \E r \in upgrade0_2_10(otelcol.config) : Returned("upgrade0_2_10", r)

\* upgrade0_31_0(u, &otelcol)
CallUpgrade0_31_0 ==
    /\ UNCHANGED notStep
    /\ Callable
    /\ \E r \in upgrade0_31_0(otelcol.config) : Returned("upgrade0_31_0", r)

\* adapters.ConfigFromString(otelcol.Spec.Config), called on its own.
CallConfigFromString ==
    /\ UNCHANGED notStep
    /\ \A i \in 1..Len(parsed) : parsed[i].text # otelcol.config
    /\ parsed' = <<[text |-> otelcol.config,
                    result |-> ConfigFromString(otelcol.config)]>>
    /\ UNCHANGED <<otelcol, stepLog>>

NextStep ==
    \/ CallConfigFromString
    \/ CallUpgrade0_2_10
    \/ CallUpgrade0_31_0

SpecStep == InitStep /\ [][NextStep]_vars


(***************************************************************************)
(* InstrumentationUpgrade.ManagedInstances (pkg/instrumentation/upgrade).  *)
(***************************************************************************)
\* u.DefaultAutoInstJava: the image the operator ships now.
DefaultAutoInstJava == "java:new"
JavaImages == {"java:old", "java:custom", DefaultAutoInstJava}
\* The value of the default-auto-instrumentation-java annotation, "" if absent.
JavaAnnotations == {"", "java:old", DefaultAutoInstJava}
\* The value of the default-auto-instrumentation-python annotation, "" if absent.
PythonAnnotations == {"", "python:old"}
\* The languages of defaultAnnotationToGate the model keeps.
Languages == {"java", "python"}
InstrumentationNames == {"a", "b"}

Instrumentation(name, managed, annotation, image, pythonAnnotation) ==
    [name |-> name, managed |-> managed, javaAnnotation |-> annotation,
     javaImage |-> image, pythonAnnotation |-> pythonAnnotation, rv |-> 1]

\* The annotation of an instance for a language.
AnnotationOf(inst, language) ==
    IF language = "java" THEN inst.javaAnnotation ELSE inst.pythonAnnotation

\* u.Recorder.Event(upgraded, "Warning", "InstrumentationUpgradeRejected", ...)
Rejected(inst, language) ==
    [type |-> "Warning", reason |-> "InstrumentationUpgradeRejected",
     name |-> inst.name, gate |-> language]

\* The events of one call: one for each annotation that is set while the
\* gate of its language is disabled.
RejectedEvents(inst, gate) ==
    {Rejected(inst, l) : l \in {l \in Languages : AnnotationOf(inst, l) # "" /\ ~gate[l]}}

\* The copy upgrade works on, with the Java image and annotation replaced
\* when the annotation is set, the gate enabled and the image the annotated one.
Upgraded(inst, gate) ==
    IF inst.javaAnnotation # "" /\ gate["java"] /\ inst.javaImage = inst.javaAnnotation
    THEN [inst EXCEPT !.javaImage = DefaultAutoInstJava,
                      !.javaAnnotation = DefaultAutoInstJava]
    ELSE inst

\* A faulty variant: the copy shares the annotations of the input, which are
\* written through it.
upgradeSharingAnnotations(inst, gate) ==
    [upgraded |-> Upgraded(inst, gate),
     input |-> [inst EXCEPT !.javaAnnotation = Upgraded(inst, gate).javaAnnotation],
     events |-> RejectedEvents(inst, gate)]

\* upgrade: the copy it returns, the input as the call leaves it (the copy is
\* a deep one: the input is not written) and the events it records.
upgrade(inst, gate) ==
    [upgraded |-> Upgraded(inst, gate),
     input |-> inst,
     events |-> RejectedEvents(inst, gate)]

\* The two operands of the comparison: upgrade returns *Instrumentation,
\* list.Items[i] is an Instrumentation.
PointerTo(v) == [type |-> "*v1alpha1.Instrumentation", elem |-> v]
StructValue(v) == [type |-> "v1alpha1.Instrumentation", elem |-> v]

\* reflect.DeepEqual: values of distinct types are never deeply equal.
DeepEqual(x, y) == x.type = y.type /\ x.elem = y.elem

\* What ManagedInstances leaves alone: the other components' state.
notInstr ==
    <<reconcileVars, upgradeVars, stepVars, buildVars, defaultsVars,
      validateVars, detectVars, lifeVars>>

InitInstr ==
    /\ ReconcileIdle
    /\ UpgradeIdle
    /\ StepIdle
    /\ BuildIdle
    /\ DefaultsIdle
    /\ OthersIdle
    /\ \E m \in [InstrumentationNames -> BOOLEAN],
          a \in [InstrumentationNames -> JavaAnnotations],
          i \in [InstrumentationNames -> JavaImages],
          y \in [InstrumentationNames -> PythonAnnotations] :
         instStore = [n \in InstrumentationNames |->
                         Instrumentation(n, m[n], a[n], i[n], y[n])]
    /\ gateEnabled \in [Languages -> BOOLEAN]
    /\ instItems = <<>>
    /\ instListed = <<>>
    /\ instHandled = <<>>
    /\ instPc = "idle"
    /\ instErr = "none"
    /\ instUpdates = <<>>
    /\ instEvents = <<>>
    /\ instFaults = 0

\* u.Client.List with the managed-by label.
ListInstances ==
    /\ UNCHANGED notInstr
    /\ instPc = "idle"
    /\ \/ /\ instFaults < MaxInstFaults
          /\ instFaults' = instFaults + 1
          /\ instErr' = "list"
          /\ instPc' = "done"
          /\ UNCHANGED <<instItems, instListed>>
       \/ /\ \E order \in Orders({n \in DOMAIN instStore : instStore[n].managed}) :
                /\ instItems' = [k \in 1..Len(order) |-> instStore[order[k]]]
                /\ instListed' = <<order>>
          /\ instPc' = "loop"
          /\ UNCHANGED <<instErr, instFaults>>
    /\ UNCHANGED <<instStore, instHandled, instUpdates, instEvents, gateEnabled>>

\* A faulty variant: the error of the Update is returned.
UpdateFailedReturning(call) ==
    /\ instUpdates' = Append(instUpdates, call @@ [res |-> "Error"])
    /\ instErr' = "update"
    /\ instPc' = "done"

\* "u.Logger.Error(err, "failed to apply changes to instance", ...); continue"
UpdateFailed(call) ==
    /\ instUpdates' = Append(instUpdates, call @@ [res |-> "Error"])
    /\ UNCHANGED <<instErr, instPc>>

\* One round of the loop over list.Items: upgrade, compare, Update.
UpgradeInstance ==
    /\ UNCHANGED notInstr
    /\ instPc = "loop"
    /\ instItems # <<>>
    /\ LET toUpgrade == Head(instItems)
           u == upgrade(toUpgrade, gateEnabled)
           call == [name |-> toUpgrade.name, listed |-> toUpgrade,
                    sent |-> u.upgraded]
       IN  /\ \E order \in Orders(u.events) : instEvents' = instEvents \o order
           /\ instHandled' = Append(instHandled,
                                    [name |-> toUpgrade.name, given |-> toUpgrade,
                                     returned |-> u.upgraded, input |-> u.input])
           /\ IF ~DeepEqual(PointerTo(u.upgraded), StructValue(u.input))
              THEN \/ /\ instFaults < MaxInstFaults
                      /\ instFaults' = instFaults + 1
                      /\ UpdateFailed(call)
                      /\ UNCHANGED instStore
                   \/ /\ instStore[toUpgrade.name].rv # toUpgrade.rv
                      /\ UpdateFailed(call)
                      /\ UNCHANGED <<instStore, instFaults>>
                   \/ /\ instStore[toUpgrade.name].rv = toUpgrade.rv
                      /\ instStore' = [instStore EXCEPT ![toUpgrade.name] =
                                          [u.upgraded EXCEPT !.rv = toUpgrade.rv + 1]]
                      /\ instUpdates' = Append(instUpdates, call @@ [res |-> "ok"])
                      /\ UNCHANGED <<instFaults, instErr, instPc>>
              ELSE UNCHANGED <<instStore, instUpdates, instFaults, instErr, instPc>>
    /\ instItems' = Tail(instItems)
    /\ UNCHANGED <<instListed, gateEnabled>>

\* The loop is over: ManagedInstances returns nil.
FinishInstances ==
    /\ UNCHANGED notInstr
    /\ instPc = "loop"
    /\ instItems = <<>>
    /\ instPc' = "done"
    /\ UNCHANGED <<instStore, instItems, instListed, instHandled, instErr,
                   instUpdates, instEvents, gateEnabled, instFaults>>

NextInstr ==
    \/ ListInstances
    \/ UpgradeInstance
    \/ FinishInstances

SpecInstr == InitInstr /\ [][NextInstr]_vars


(***************************************************************************)
(* The manifest builder, as the expectations of its tests pin it           *)
(* (controllers: TestBuildCollector, TestBuildTargetAllocator).            *)
(***************************************************************************)
\* The service account the workload's pod template names.
WorkloadServiceAccountName(inst) ==
    IF inst.serviceAccount = "" THEN CollectorServiceAccountName
    ELSE inst.serviceAccount

CollectorName == InstanceName \o "-collector"
TargetAllocatorName == InstanceName \o "-targetallocator"
IngressName == InstanceName \o "-ingress"

CollectorComponent == "opentelemetry-collector"
TargetAllocatorComponent == "opentelemetry-targetallocator"

\* A receiver's endpoint: <<host, port>>, or <<>> when it declares none.
NoEndpoint == <<>>
Listener(port) ==
    [endpoint |-> <<"0.0.0.0", port>>, scrapes |-> FALSE, targetAllocator |-> ""]
\* The prometheus receiver: its own scrape configuration, no listener.
Scraper == [endpoint |-> NoEndpoint, scrapes |-> TRUE, targetAllocator |-> ""]

CollectorConfig(receivers) == [style |-> "author", receivers |-> receivers]
NoConfig == [style |-> "none", receivers |-> EmptyMap]

\* The configuration of TestBuildCollector.
GoodConfig == CollectorConfig(("examplereceiver" :> Listener(12345)))

BuildConfigs ==
    { GoodConfig,
      CollectorConfig(("prometheus" :> Scraper)),
      CollectorConfig(("examplereceiver" :> Listener(12345)) @@
                      ("otlp" :> Listener(4317))),
      CollectorConfig(("examplereceiver" :> Listener(12345)) @@
                      ("prometheus" :> Scraper)) }

\* The receivers that declare a listener endpoint.
Listeners(cfg) == {r \in DOMAIN cfg.receivers : cfg.receivers[r].endpoint # NoEndpoint}

\* The port of an endpoint "host:port".
PortOf(endpoint) == endpoint[2]

Port(name, number) == [name |-> name, port |-> number]

\* The ports of the collector's services: one per listener.
ServicePorts(cfg) ==
    {Port(r, PortOf(cfg.receivers[r].endpoint)) : r \in Listeners(cfg)}

\* A faulty variant: the metrics port is left out.
ContainerPortsWithoutMetrics(cfg) == ServicePorts(cfg)

\* The container's ports: one per listener, and the metrics port.
ContainerPorts(cfg) == ServicePorts(cfg) \cup {Port("metrics", 8888)}

\* The collector's configuration with target allocation: re-serialized, the
\* prometheus receiver's scrape configuration replaced by the allocator's
\* address.
RewriteForTargetAllocator(cfg) ==
    [style |-> "marshalled",
     receivers |-> [r \in DOMAIN cfg.receivers |->
                       IF r = "prometheus"
                       THEN [cfg.receivers[r] EXCEPT
                                !.scrapes = FALSE,
                                !.targetAllocator =
                                    "http://" \o TargetAllocatorName \o ":80"]
                       ELSE cfg.receivers[r]]]

\* The six labels most rendered objects carry.
Labels(component, name, managedBy) ==
    (ComponentKey :> component) @@
    (InstanceKey :> InstanceLabelValue) @@
    (ManagedByKey :> managedBy) @@
    (NameKey :> name) @@
    (PartOfKey :> "opentelemetry") @@
    (VersionKey :> "latest")

\* The three labels of the ingress.
IngressLabels ==
    (InstanceKey :> InstanceLabelValue) @@
    (ManagedByKey :> "opentelemetry-operator") @@
    (NameKey :> IngressName)

Manifest(kind, name, labels) ==
    [kind |-> kind, namespace |-> InstanceNamespace, name |-> name,
     labels |-> labels, ports |-> {}, paths |-> {}, config |-> NoConfig,
     serviceAccountName |-> ""]

Workload(p, managedBy) ==
    [Manifest(IF p.mode = "statefulset" THEN "StatefulSet" ELSE "Deployment",
              CollectorName, Labels(CollectorComponent, CollectorName, managedBy))
        EXCEPT !.ports = ContainerPorts(p.config),
               !.serviceAccountName = WorkloadServiceAccountName(p)]

ConfigMap(p, managedBy) ==
    [Manifest("ConfigMap", CollectorName,
              Labels(CollectorComponent, CollectorName, managedBy))
        EXCEPT !.config = IF p.targetAllocator
                          THEN RewriteForTargetAllocator(p.config)
                          ELSE p.config]

CollectorServiceAccount(p) ==
    IF p.serviceAccount = ""
    THEN <<Manifest("ServiceAccount", CollectorServiceAccountName,
                    ServiceAccountLabels)>>
    ELSE <<>>

\* The collector's service and its headless twin: only with a port to expose.
Service(p) ==
    IF ServicePorts(p.config) = {} THEN <<>>
    ELSE <<[Manifest("Service", CollectorName,
                     Labels(CollectorComponent, CollectorName,
                            "opentelemetry-operator"))
               EXCEPT !.ports = ServicePorts(p.config)]>>

HeadlessService(p) ==
    IF ServicePorts(p.config) = {} THEN <<>>
    ELSE <<[Manifest("Service", CollectorName \o "-headless",
                     Labels(CollectorComponent, CollectorName,
                            "opentelemetry-operator") @@
                     ("operator.opentelemetry.io/collector-headless-service" :>
                          "Exists"))
               EXCEPT !.ports = ServicePorts(p.config)]>>

MonitoringService(p) ==
    [Manifest("Service", CollectorName \o "-monitoring",
              Labels(CollectorComponent, CollectorName \o "-monitoring",
                     "opentelemetry-operator"))
        EXCEPT !.ports = {Port("monitoring", 8888)}]

Path(r) == [path |-> "/" \o r, service |-> CollectorName, port |-> r]

\* A faulty variant: the ingress is rendered whatever the ingress type.
IngressIgnoringType(p) ==
    <<[Manifest("Ingress", IngressName, IngressLabels)
          EXCEPT !.paths = {Path(r) : r \in Listeners(p.config)}]>>

Ingress(p) ==
    IF p.ingress = "" THEN <<>>
    ELSE <<[Manifest("Ingress", IngressName, IngressLabels)
               EXCEPT !.paths = {Path(r) : r \in Listeners(p.config)}]>>

TargetAllocatorLabels ==
    Labels(TargetAllocatorComponent, TargetAllocatorName, "opentelemetry-operator")

\* A faulty variant: the allocator's service is left out.
TargetAllocatorWithoutService(p) ==
    IF ~p.targetAllocator THEN <<>>
    ELSE << Manifest("ConfigMap", TargetAllocatorName, TargetAllocatorLabels),
            [Manifest("Deployment", TargetAllocatorName, TargetAllocatorLabels)
                EXCEPT !.ports = {Port("http", 8080)},
                       !.serviceAccountName = TargetAllocatorName],
            Manifest("ServiceAccount", TargetAllocatorName, TargetAllocatorLabels) >>

\* The allocator's objects: config map, deployment, service account, service.
TargetAllocator(p) ==
    IF ~p.targetAllocator THEN <<>>
    ELSE << Manifest("ConfigMap", TargetAllocatorName, TargetAllocatorLabels),
            [Manifest("Deployment", TargetAllocatorName, TargetAllocatorLabels)
                EXCEPT !.ports = {Port("http", 8080)},
                       !.serviceAccountName = TargetAllocatorName],
            Manifest("ServiceAccount", TargetAllocatorName, TargetAllocatorLabels),
            [Manifest("Service", TargetAllocatorName, TargetAllocatorLabels)
                EXCEPT !.ports = {Port("targetallocation", 80)}] >>

\* The rendered objects, in the order the builder returns them.
BuildAll(p, managedBy) ==
    <<Workload(p, managedBy), ConfigMap(p, managedBy)>> \o
    CollectorServiceAccount(p) \o Service(p) \o HeadlessService(p) \o
    <<MonitoringService(p)>> \o Ingress(p) \o TargetAllocator(p)

\* The specifications handed to the builder: those whose rendering the tests
\* pin (target allocation goes with a prometheus receiver, an ingress with at
\* least one listener).
BuildInputs ==
    {p \in [mode : {"deployment", "statefulset"}, config : BuildConfigs,
            ingress : {"", "ingress"}, targetAllocator : BOOLEAN,
            serviceAccount : ServiceAccountOverrides] :
        /\ p.targetAllocator => "prometheus" \in DOMAIN p.config.receivers
        /\ p.ingress # "" => Listeners(p.config) # {}}

\* What the builder leaves alone: the other components' state.
notBuild ==
    <<reconcileVars, upgradeVars, stepVars, instrVars, defaultsVars,
      validateVars, detectVars, lifeVars>>

InitBuild ==
    /\ ReconcileIdle
    /\ UpgradeIdle
    /\ StepIdle
    /\ InstrIdle
    /\ DefaultsIdle
    /\ OthersIdle
    /\ params = [mode |-> "deployment", config |-> GoodConfig, ingress |-> "",
                 targetAllocator |-> FALSE, serviceAccount |-> ""]
    /\ rendered = <<>>
    /\ buildPc = "ready"
    /\ workloadManagedBy \in {OperatorManagedBy, ServiceAccountManagedBy}

\* BuildCollector(params)
Render ==
    /\ UNCHANGED notBuild
    /\ buildPc = "ready"
    /\ rendered' = BuildAll(params, workloadManagedBy)
    /\ buildPc' = "rendered"
    /\ UNCHANGED <<params, workloadManagedBy>>

\* The specification is edited; what was rendered from the old one is dropped.
EditSpecification ==
    /\ UNCHANGED notBuild
    /\ buildPc = "rendered"
    /\ \E q \in BuildInputs \ {params} : params' = q
    /\ rendered' = <<>>
    /\ buildPc' = "ready"
    /\ UNCHANGED workloadManagedBy

NextBuild ==
    \/ Render
    \/ EditSpecification

SpecBuild == InitBuild /\ [][NextBuild]_vars


(***************************************************************************)
(* The defaults of Instrumentations: the default instance the operator      *)
(* builds from the agent configuration (getDefaultInstrumentation, as the   *)
(* expectations of its test pin it), and the admission defaulter            *)
(* (InstrumentationWebhook.defaulter).                                      *)
(***************************************************************************)
\* adapters.TLS of the AppSignals section: <<>> when nil.
NoTLS == <<>>
SomeTLS == <<[certFile |-> "some-cert", keyFile |-> "some-key"]>>
\* The agent configurations: metrics collected, AppSignals with or without TLS.
AgentConfigs == {[tls |-> NoTLS], [tls |-> SomeTLS]}

AgentHost == "cloudwatch-agent.amazon-cloudwatch"
EnvVar(name, value) == [name |-> name, value |-> value]
\* The exporter endpoint for a scheme and a path.
Exporter(prefix, path) == prefix \o "://" \o AgentHost \o ":4316" \o path
\* The argument of the xray sampler.
SamplerArg(prefix) == "endpoint=" \o prefix \o "://" \o AgentHost \o ":2000"

JavaEnv(prefix, samplerPrefix) ==
    << EnvVar("OTEL_SMP_ENABLED", "true"),
       EnvVar("OTEL_AWS_APP_SIGNALS_ENABLED", "true"),
       EnvVar("OTEL_TRACES_SAMPLER_ARG", SamplerArg(samplerPrefix)),
       EnvVar("OTEL_TRACES_SAMPLER", "xray"),
       EnvVar("OTEL_EXPORTER_OTLP_PROTOCOL", "http/protobuf"),
       EnvVar("OTEL_EXPORTER_OTLP_TRACES_ENDPOINT", Exporter(prefix, "/v1/traces")),
       EnvVar("OTEL_AWS_SMP_EXPORTER_ENDPOINT", Exporter(prefix, "/v1/metrics")),
       EnvVar("OTEL_AWS_APP_SIGNALS_EXPORTER_ENDPOINT", Exporter(prefix, "/v1/metrics")),
       EnvVar("OTEL_METRICS_EXPORTER", "none"),
       EnvVar("OTEL_LOGS_EXPORTER", "none") >>

PythonEnv(prefix, samplerPrefix) ==
    << EnvVar("OTEL_AWS_APP_SIGNALS_ENABLED", "true"),
       EnvVar("OTEL_TRACES_SAMPLER_ARG", SamplerArg(samplerPrefix)),
       EnvVar("OTEL_TRACES_SAMPLER", "xray"),
       EnvVar("OTEL_EXPORTER_OTLP_PROTOCOL", "http/protobuf"),
       EnvVar("OTEL_EXPORTER_OTLP_TRACES_ENDPOINT", Exporter(prefix, "/v1/traces")),
       EnvVar("OTEL_AWS_APP_SIGNALS_EXPORTER_ENDPOINT", Exporter(prefix, "/v1/metrics")),
       EnvVar("OTEL_METRICS_EXPORTER", "none"),
       EnvVar("OTEL_PYTHON_DISTRO", "aws_distro"),
       EnvVar("OTEL_PYTHON_CONFIGURATOR", "aws_configurator"),
       EnvVar("OTEL_LOGS_EXPORTER", "none") >>

\* The default Instrumentation with the given scheme for the exporters and
\* the given scheme for the sampler.
DefaultInstrumentation(prefix, samplerPrefix) ==
    [apiVersion |-> "defaultAPIVersion",
     kind |-> "defaultKind",
     name |-> "defaultInstrumenation",
     namespace |-> "defaultNamespace",
     propagators |-> <<"tracecontext", "baggage", "b3", "xray">>,
     java |-> [image |-> "defaultJavaInstrumentationImage",
               env |-> JavaEnv(prefix, samplerPrefix)],
     python |-> [image |-> "defaultPythonInstrumentationImage",
                 env |-> PythonEnv(prefix, samplerPrefix)]]

\* The scheme of the exporters: https when AppSignals has TLS.
ExporterPrefix(config) == IF config.tls # NoTLS THEN "https" ELSE "http"

\* A faulty variant: the sampler endpoint follows the exporters' scheme.
getDefaultInstrumentationSecuringSampler(config) ==
    DefaultInstrumentation(ExporterPrefix(config), ExporterPrefix(config))

\* getDefaultInstrumentation(agentConfig)
getDefaultInstrumentation(config) ==
    DefaultInstrumentation(ExporterPrefix(config), "http")

\* corev1.ResourceList: nil, or the quantities it holds ("" where it has none).
NilResources == [nil |-> TRUE, cpu |-> "", memory |-> ""]
ResourceList(cpu, memory) == [nil |-> FALSE, cpu |-> cpu, memory |-> memory]
UserResources == {NilResources, ResourceList("", ""), ResourceList("2", "1Gi")}

\* A map of the object's metadata: nil, or the value it holds for the one key
\* the defaulter looks at ("" where it has none).
NilMap == [nil |-> TRUE, value |-> ""]
MapWith(value) == [nil |-> FALSE, value |-> value]

\* The Instrumentations a user may submit.
Submitted ==
    [labels : {NilMap, MapWith(""), MapWith("helm")},
     javaImage : {"", "java:custom"},
     limits : UserResources,
     requests : UserResources,
     annotations : {NilMap, MapWith("java:old")}]

\* The images the operator may be configured with; "" when it has none.
JavaDefaults == {"", DefaultAutoInstJava}

\* A faulty variant: the Java image is set whatever the user wrote.
defaulterOverwritingImage(r, image) ==
    [labels |-> MapWith(IF r.labels.value = "" THEN OperatorManagedBy
                        ELSE r.labels.value),
     javaImage |-> image,
     limits |-> IF r.limits.nil THEN ResourceList("500m", "64Mi") ELSE r.limits,
     requests |-> IF r.requests.nil THEN ResourceList("50m", "64Mi") ELSE r.requests,
     annotations |-> MapWith(image)]

\* InstrumentationWebhook.defaulter: the object as the call leaves it.
defaulter(r, image) ==
    [labels |-> MapWith(IF r.labels.value = "" THEN OperatorManagedBy
                        ELSE r.labels.value),
     javaImage |-> IF r.javaImage = "" THEN image ELSE r.javaImage,
     limits |-> IF r.limits.nil THEN ResourceList("500m", "64Mi") ELSE r.limits,
     requests |-> IF r.requests.nil THEN ResourceList("50m", "64Mi") ELSE r.requests,
     annotations |-> MapWith(image)]

\* What the defaults leave alone: the other components' state.
notDefaults ==
    <<reconcileVars, upgradeVars, stepVars, instrVars, buildVars,
      validateVars, detectVars, lifeVars>>

InitDefaults ==
    /\ ReconcileIdle
    /\ UpgradeIdle
    /\ StepIdle
    /\ InstrIdle
    /\ BuildIdle
    /\ OthersIdle
    /\ agentConfig \in AgentConfigs
    /\ built = {}
    /\ javaDefault \in JavaDefaults
    /\ admitted \in Submitted
    /\ defaulted = <<>>

\* getDefaultInstrumentation(agentConfig), once for a configuration.
GetDefaultInstrumentation ==
    /\ UNCHANGED notDefaults
    /\ \A b \in built : b.config # agentConfig
    /\ built' = built \cup {[config |-> agentConfig,
                             got |-> getDefaultInstrumentation(agentConfig)]}
    /\ UNCHANGED <<agentConfig, javaDefault, admitted, defaulted>>

\* The operator is restarted with another agent configuration.
EditAgentConfig ==
    /\ UNCHANGED notDefaults
    /\ \E c \in AgentConfigs \ {agentConfig} : agentConfig' = c
    /\ UNCHANGED <<built, javaDefault, admitted, defaulted>>

\* InstrumentationWebhook.Default on the create or the update of an object.
Default ==
    /\ UNCHANGED notDefaults
    /\ \A i \in 1..Len(defaulted) : defaulted[i].left # admitted
    /\ admitted' = defaulter(admitted, javaDefault)
    /\ defaulted' = <<[given |-> admitted,
                       left |-> defaulter(admitted, javaDefault)]>>
    /\ UNCHANGED <<agentConfig, built, javaDefault>>

\* The user updates the admitted object: one field is replaced.
UpdateInstrumentation ==
    /\ UNCHANGED notDefaults
    /\ defaulted # <<>>
    /\ defaulted[1].left = admitted
    /\ \E s \in Submitted :
          \/ admitted' = [admitted EXCEPT !.labels = s.labels]
          \/ admitted' = [admitted EXCEPT !.javaImage = s.javaImage]
          \/ admitted' = [admitted EXCEPT !.limits = s.limits]
          \/ admitted' = [admitted EXCEPT !.requests = s.requests]
          \/ admitted' = [admitted EXCEPT !.annotations = s.annotations]
    /\ admitted' # admitted
    /\ UNCHANGED <<agentConfig, built, javaDefault, defaulted>>

NextDefaults ==
    \/ GetDefaultInstrumentation
    \/ EditAgentConfig
    \/ Default
    \/ UpdateInstrumentation

SpecDefaults == InitDefaults /\ [][NextDefaults]_vars


(***************************************************************************)
(* Validation of Instrumentations (InstrumentationWebhook.validate).        *)
(***************************************************************************)
\* The sampler types of the API, by the names of their constants.
RatioSamplers == {"TraceIDRatio", "ParentBasedTraceIDRatio"}
JaegerSamplers == {"JaegerRemote", "ParentBasedJaegerRemote"}
PlainSamplers ==
    {"AlwaysOn", "AlwaysOff", "ParentBasedAlwaysOn", "ParentBasedAlwaysOff",
     "XRaySampler"}
\* What a user may write as sampler type: nothing, a known type, another word.
SamplerTypes == {"", "unknown"} \cup RatioSamplers \cup JaegerSamplers \cup PlainSamplers

JaegerArgument ==
    "endpoint=http://localhost:14250,pollingIntervalMs=5000,initialSamplingRate=0.25"
\* What a user may write as sampler argument.
SamplerArguments ==
    {"", "0", "0.25", "1", "1.5", "-0.5", "abc", "NaN", JaegerArgument, "endpoint="}

\* strconv.ParseFloat(argument, 64): an error, or a float64, which is a
\* number (here in hundredths) or NaN.
ParseFloat(argument) ==
    CASE argument = "0" -> [err |-> FALSE, nan |-> FALSE, hundredths |-> 0]
      [] argument = "0.25" -> [err |-> FALSE, nan |-> FALSE, hundredths |-> 25]
      [] argument = "1" -> [err |-> FALSE, nan |-> FALSE, hundredths |-> 100]
      [] argument = "1.5" -> [err |-> FALSE, nan |-> FALSE, hundredths |-> 150]
      [] argument = "-0.5" -> [err |-> FALSE, nan |-> FALSE, hundredths |-> -50]
      [] argument = "NaN" -> [err |-> FALSE, nan |-> TRUE, hundredths |-> 0]
      [] OTHER -> [err |-> TRUE, nan |-> FALSE, hundredths |-> 0]

\* "rate < 0 || rate > 1": every comparison with NaN is false.
OutOfRange(rate) == ~rate.nan /\ (rate.hundredths < 0 \/ rate.hundredths > 100)

\* validateJaegerRemoteSamplerArgument: "" for nil, else the error. Of the
\* arguments above only JaegerArgument splits into key=value parts that pass.
validateJaegerRemoteSamplerArgument(argument) ==
    CASE argument = JaegerArgument -> ""
      [] argument = "endpoint=" -> "endpoint cannot be empty"
      [] OTHER -> "invalid argument"

NoError == [msg |-> "nil", about |-> <<>>]
Error(msg, about) == [msg |-> msg, about |-> about]

\* The check of the sampler: the warnings and the error of the switch.
validateSampler(type, argument) ==
    CASE type = "" ->
             [warnings |-> <<"sampler type not set">>, err |-> NoError]
      [] type \in RatioSamplers ->
             [warnings |-> <<>>,
              err |-> IF argument = "" THEN NoError
                      ELSE IF ParseFloat(argument).err
                           THEN Error("spec.sampler.argument is not a number",
                                      <<argument>>)
                           ELSE IF OutOfRange(ParseFloat(argument))
                                THEN Error("spec.sampler.argument should be in rage [0..1]",
                                           <<argument>>)
                                ELSE NoError]
      [] type \in JaegerSamplers ->
             [warnings |-> <<>>,
              err |-> IF argument # ""
                         /\ validateJaegerRemoteSamplerArgument(argument) # ""
                      THEN Error("spec.sampler.argument is not a valid argument",
                                 <<argument>>)
                      ELSE NoError]
      [] type \in PlainSamplers -> [warnings |-> <<>>, err |-> NoError]
      [] OTHER -> [warnings |-> <<>>,
                   err |-> Error("spec.sampler.type is not valid", <<type>>)]

\* Names of environment variables, letter by letter.
envPrefix == <<"O", "T", "E", "L", "_">>
envSplunkPrefix == <<"S", "P", "L", "U", "N", "K", "_">>
EnvNames ==
    {envPrefix \o <<"X">>, envSplunkPrefix \o <<"X">>, <<"O", "T", "E", "L">>,
     <<"M", "Y", "_", "X">>}

\* strings.HasPrefix
HasPrefix(str, prefix) ==
    Len(str) >= Len(prefix) /\ SubSeq(str, 1, Len(prefix)) = prefix

\* A faulty variant: only the first name is looked at.
validateEnvFirstOnly(envs) ==
    IF envs # <<>> /\ ~HasPrefix(envs[1], envPrefix)
                   /\ ~HasPrefix(envs[1], envSplunkPrefix)
    THEN Error("env name should start with \"OTEL_\" or \"SPLUNK_\"", envs[1])
    ELSE NoError

\* validateEnv: the error naming the first name with neither prefix, or nil.
RECURSIVE validateEnv(_)
validateEnv(envs) ==
    IF envs = <<>>
    THEN NoError
    ELSE IF ~HasPrefix(Head(envs), envPrefix) /\ ~HasPrefix(Head(envs), envSplunkPrefix)
         THEN Error("env name should start with \"OTEL_\" or \"SPLUNK_\"", Head(envs))
         ELSE validateEnv(Tail(envs))

\* validate: the warnings and the error it returns.
validate(r) ==
    LET sampler == validateSampler(r.samplerType, r.samplerArgument)
    IN  IF sampler.err # NoError
        THEN sampler
        ELSE IF validateEnv(r.env) # NoError
             THEN [warnings |-> sampler.warnings, err |-> validateEnv(r.env)]
             ELSE [warnings |-> sampler.warnings, err |-> validateEnv(r.javaEnv)]

\* The Instrumentations handed to the validator.
Candidates ==
    [samplerType : SamplerTypes,
     samplerArgument : SamplerArguments,
     env : {<<>>} \cup {<<a>> : a \in EnvNames}
                  \cup {<<a, b>> : a \in EnvNames, b \in EnvNames},
     javaEnv : {<<>>} \cup {<<a>> : a \in EnvNames}]

notValidate ==
    <<reconcileVars, upgradeVars, stepVars, instrVars, buildVars, defaultsVars,
      detectVars, lifeVars>>

InitValidate ==
    /\ ReconcileIdle
    /\ UpgradeIdle
    /\ StepIdle
    /\ InstrIdle
    /\ BuildIdle
    /\ DefaultsIdle
    /\ DetectIdle
    /\ LifeIdle
    /\ candidate \in Candidates
    /\ verdict = <<>>

\* ValidateCreate(ctx, obj)
ValidateCreate ==
    /\ UNCHANGED notValidate
    /\ verdict = <<>>
    /\ verdict' = <<[op |-> "create"] @@ validate(candidate)>>
    /\ UNCHANGED candidate

\* ValidateUpdate(ctx, oldObj, newObj): newObj is validated.
ValidateUpdate ==
    /\ UNCHANGED notValidate
    /\ verdict = <<>>
    /\ verdict' = <<[op |-> "update"] @@ validate(candidate)>>
    /\ UNCHANGED candidate

\* ValidateDelete(ctx, obj)
ValidateDelete ==
    /\ UNCHANGED notValidate
    /\ verdict = <<>>
    /\ verdict' = <<[op |-> "delete"] @@ validate(candidate)>>
    /\ UNCHANGED candidate

NextValidate ==
    \/ ValidateCreate
    \/ ValidateUpdate
    \/ ValidateDelete

SpecValidate == InitValidate /\ [][NextValidate]_vars


(***************************************************************************)
(* Admission defaulting and ManagedInstances on the same objects, across a  *)
(* change of the operator's default Java image.                             *)
(***************************************************************************)
MaxAdmissions == 2

\* The default image of the operator before it is upgraded.
PreviousAutoInstJava == "java:old"

\* The object of the store as the webhook sees it.
AsSubmitted(inst) ==
    [labels |-> MapWith(IF inst.managed THEN OperatorManagedBy ELSE "helm"),
     javaImage |-> inst.javaImage,
     limits |-> ResourceList("2", "1Gi"),
     requests |-> ResourceList("2", "1Gi"),
     annotations |-> IF inst.javaAnnotation = "" THEN NilMap
                     ELSE MapWith(inst.javaAnnotation)]

\* The object after InstrumentationWebhook.Default ran on it.
Admitted(inst, image) ==
    LET r == defaulter(AsSubmitted(inst), image)
    IN  [inst EXCEPT !.managed = (r.labels.value = OperatorManagedBy),
                     !.javaImage = r.javaImage,
                     !.javaAnnotation = r.annotations.value]

\* What a user writes in spec.java.image: nothing, or an image of their own.
UserImages == {"", "java:custom"}

\* Who chose the image of an object the user submitted.
OriginOf(image) == IF image = "" THEN "defaulter" ELSE "user"

notLifecycle ==
    <<reconcileVars, upgradeVars, stepVars, buildVars, validateVars, detectVars>>

\* Objects created under the previous default; no pass has been asked for.
InitLifecycle ==
    /\ ReconcileIdle
    /\ UpgradeIdle
    /\ StepIdle
    /\ BuildIdle
    /\ ValidateIdle
    /\ DetectIdle
    /\ agentConfig = <<>>
    /\ built = {}
    /\ admitted = <<>>
    /\ defaulted = <<>>
    /\ javaDefault = PreviousAutoInstJava
    /\ \E m \in [InstrumentationNames -> BOOLEAN],
          i \in [InstrumentationNames -> UserImages] :
         /\ instStore = [n \in InstrumentationNames |->
                            Admitted(Instrumentation(n, m[n], "", i[n], ""),
                                     PreviousAutoInstJava)]
         /\ life = [origin |-> [n \in InstrumentationNames |-> OriginOf(i[n])],
                    readmitted |-> {},
                    admissions |-> 0]
    /\ gateEnabled \in [Languages -> BOOLEAN]
    /\ instItems = <<>>
    /\ instListed = <<>>
    /\ instHandled = <<>>
    /\ instPc = "off"
    /\ instErr = "none"
    /\ instUpdates = <<>>
    /\ instEvents = <<>>
    /\ instFaults = 0

\* The operator is upgraded: its default image changes and a pass of
\* ManagedInstances is due.
ChangeDefault ==
    /\ UNCHANGED notLifecycle
    /\ javaDefault = PreviousAutoInstJava
    /\ javaDefault' = DefaultAutoInstJava
    /\ instPc = "off"
    /\ instPc' = "idle"
    /\ UNCHANGED <<agentConfig, built, admitted, defaulted, life, instStore,
                   instItems, instListed, instHandled, instErr, instUpdates,
                   instEvents, gateEnabled, instFaults>>

\* A user updates an object, leaving the image, clearing it or choosing one:
\* InstrumentationWebhook.Default runs on the update.
Readmit ==
    /\ UNCHANGED notLifecycle
    /\ life.admissions < MaxAdmissions
    /\ \E n \in InstrumentationNames, edit \in {"keep"} \cup UserImages :
          LET written == IF edit = "keep" THEN instStore[n]
                         ELSE [instStore[n] EXCEPT !.javaImage = edit]
          IN  /\ instStore' =
                     [instStore EXCEPT ![n] =
                         [Admitted(written, javaDefault) EXCEPT
                             !.rv = instStore[n].rv + 1]]
              /\ life' =
                     [origin |-> IF edit = "keep" THEN life.origin
                                 ELSE [life.origin EXCEPT ![n] = OriginOf(edit)],
                      readmitted |-> IF javaDefault = DefaultAutoInstJava
                                        /\ instPc = "idle"
                                     THEN life.readmitted \cup {n}
                                     ELSE life.readmitted,
                      admissions |-> life.admissions + 1]
    /\ UNCHANGED <<agentConfig, built, javaDefault, admitted, defaulted,
                   instItems, instListed, instHandled, instPc, instErr,
                   instUpdates, instEvents, gateEnabled, instFaults>>

NextLifecycle ==
    \/ ChangeDefault
    \/ Readmit
    \/ ListInstances
    \/ UpgradeInstance
    \/ FinishInstances

SpecLifecycle == InitLifecycle /\ [][NextLifecycle]_vars


(***************************************************************************)
(* Config.AutoDetect (package config): the probe of the cluster, the        *)
(* mutex-guarded store of the availability of OpenShift routes, and the     *)
(* change callback.  A goroutine is at "idle" outside AutoDetect, then at   *)
(* "probed" (line 109 is next), "set" (line 111) or "notify" (line 112).    *)
(***************************************************************************)
MaxDetects == 3
MaxRouteChanges == 2

OpenShiftRoutesAvailable == "Available"
OpenShiftRoutesNotAvailable == "NotAvailable"
Availabilities == {OpenShiftRoutesAvailable, OpenShiftRoutesNotAvailable}

\* A goroutine outside AutoDetect.
Idle == [pc |-> "idle", ora |-> "", seen |-> "", call |-> 0]

\* One step of a call, as the history keeps it.
Step(t, op, value, seen, failed) ==
    [task |-> t, call |-> task[t].call, op |-> op, value |-> value,
     seen |-> seen, failed |-> failed]

\* The calls of AutoDetect begun so far.
Begun == Cardinality({i \in 1..Len(detectLog) : detectLog[i].op = "probe"})

\* A faulty variant: a failed probe counts as "not available".
StoredAfterProbeErrorReset(stored) == OpenShiftRoutesNotAvailable

\* "if err != nil { return err }": the store is not touched.
StoredAfterProbeError(stored) == stored

\* A faulty variant: the callbacks are invoked after every probe.
ChangedAlways(stored, ora) == TRUE

\* "c.openshiftRoutes.Get() != ora"
Changed(stored, ora) == stored # ora

\* A faulty variant: the store goes back to what it held when a callback fails.
StoredAfterCallbackRollingBack(failed, stored, before) ==
    IF failed THEN before ELSE stored

\* The error of Do is logged: the store keeps what Set put there.
StoredAfterCallback(failed, stored, before) == stored

notDetect ==
    <<reconcileVars, upgradeVars, stepVars, instrVars, buildVars, defaultsVars,
      validateVars, lifeVars>>

\* The state New() leaves, with the goroutines that will call AutoDetect.
Constructed(tasks) ==
    /\ ReconcileIdle
    /\ UpgradeIdle
    /\ StepIdle
    /\ InstrIdle
    /\ BuildIdle
    /\ DefaultsIdle
    /\ ValidateIdle
    /\ LifeIdle
    /\ routes \in Availabilities
    /\ current = OpenShiftRoutesNotAvailable
    /\ task = [t \in tasks |-> Idle]
    /\ detectLog = <<>>
    /\ routeChanges = 0

\* One goroutine calls AutoDetect, one call after the other: the first run of
\* StartAutoDetect, then the ticks of periodicAutoDetect.
InitDetect == Constructed({"periodic"})

\* A direct caller of AutoDetect beside the periodic goroutine.
InitDetectConcurrent == Constructed({"periodic", "caller"})

\* The cluster gains or loses the routes API.
ChangeRoutes ==
    /\ UNCHANGED notDetect
    /\ routeChanges < MaxRouteChanges
    /\ routeChanges' = routeChanges + 1
    /\ \E r \in Availabilities \ {routes} : routes' = r
    /\ UNCHANGED <<current, task, detectLog>>

\* AutoDetect is entered: c.autoDetect.OpenShiftRoutesAvailability().
Probe ==
    /\ UNCHANGED notDetect
    /\ Begun < MaxDetects
    /\ \E t \in DOMAIN task :
          /\ task[t].pc = "idle"
          /\ LET entered == [task EXCEPT ![t].call = Begun + 1]
             IN  \/ /\ current' = StoredAfterProbeError(current)
                    /\ task' = [entered EXCEPT ![t].pc = "idle"]
                    /\ detectLog' =
                           detectLog \o
                           <<[task |-> t, call |-> Begun + 1, op |-> "probe",
                              value |-> "", seen |-> current, failed |-> TRUE],
                             [task |-> t, call |-> Begun + 1, op |-> "return",
                              value |-> "", seen |-> StoredAfterProbeError(current),
                              failed |-> TRUE]>>
                 \/ /\ task' = [entered EXCEPT ![t].pc = "probed", ![t].ora = routes]
                    /\ detectLog' =
                           Append(detectLog,
                                  [task |-> t, call |-> Begun + 1, op |-> "probe",
                                   value |-> routes, seen |-> current,
                                   failed |-> FALSE])
                    /\ UNCHANGED current
    /\ UNCHANGED <<routes, routeChanges>>

\* "if c.openshiftRoutes.Get() != ora": Get under the mutex; return nil when
\* nothing changed.
Compare ==
    /\ UNCHANGED notDetect
    /\ \E t \in DOMAIN task :
          /\ task[t].pc = "probed"
          /\ IF Changed(current, task[t].ora)
             THEN /\ task' = [task EXCEPT ![t].pc = "set", ![t].seen = current]
                  /\ detectLog' = Append(detectLog,
                                         Step(t, "get", task[t].ora, current, FALSE))
             ELSE /\ task' = [task EXCEPT ![t] = [Idle EXCEPT !.call = task[t].call]]
                  /\ detectLog' = detectLog \o
                                  <<Step(t, "get", task[t].ora, current, FALSE),
                                    Step(t, "return", task[t].ora, current, FALSE)>>
    /\ UNCHANGED <<routes, current, routeChanges>>

\* c.openshiftRoutes.Set(ora), under the mutex.
Set ==
    /\ UNCHANGED notDetect
    /\ \E t \in DOMAIN task :
          /\ task[t].pc = "set"
          /\ current' = task[t].ora
          /\ task' = [task EXCEPT ![t].pc = "notify"]
          /\ detectLog' = Append(detectLog,
                                 Step(t, "set", task[t].ora, current, FALSE))
    /\ UNCHANGED <<routes, routeChanges>>

\* c.onOpenShiftRoutesChange.Do(): the callback reads OpenShiftRoutes() and
\* returns nil or an error; AutoDetect returns nil.
Notify ==
    /\ UNCHANGED notDetect
    /\ \E t \in DOMAIN task, failed \in BOOLEAN :
          /\ task[t].pc = "notify"
          /\ current' = StoredAfterCallback(failed, current, task[t].seen)
          /\ task' = [task EXCEPT ![t] = [Idle EXCEPT !.call = task[t].call]]
          /\ detectLog' =
                 detectLog \o
                 <<Step(t, "notify", task[t].ora, current, failed),
                   Step(t, "return", task[t].ora,
                        StoredAfterCallback(failed, current, task[t].seen), FALSE)>>
    /\ UNCHANGED <<routes, routeChanges>>

NextDetect ==
    \/ ChangeRoutes
    \/ Probe
    \/ Compare
    \/ Set
    \/ Notify

SpecDetect == InitDetect /\ [][NextDetect]_vars
SpecDetectConcurrent == InitDetectConcurrent /\ [][NextDetect]_vars


Next ==
    \/ StartPass
    \/ GetStep
    \/ CreateStep
    \/ PatchStep
    \/ ListStep
    \/ DeleteStep
    \/ FinishPass
    \/ ExternalEdit
    \/ EditInstance

Spec == Init /\ [][Next]_vars

(***************************************************************************)
(* The reconciler's properties.                                            *)
(***************************************************************************)
CallIndexes(op, res) ==
    {i \in 1..Len(calls) : calls[i].op = op /\ calls[i].res = res}

\* The objects this pass deleted.
Deleted == {calls[i].id : i \in CallIndexes("Delete", "ok")}

DesiredIds ==
    LET d == desiredServiceAccounts(instance)
    IN  {ObjectId(d[i]) : i \in 1..Len(d)}

PassSucceeded == pc = "done" /\ err = "none"

\* An object carries both ownership labels and lives in the instance's namespace.
Owned(o) ==
    /\ o.ns = "test"
    /\ "app.kubernetes.io/managed-by" \in DOMAIN o.labels
    /\ o.labels["app.kubernetes.io/managed-by"] = "amazon-cloudwatch-agent-operator"
    /\ "app.kubernetes.io/instance" \in DOMAIN o.labels
    /\ o.labels["app.kubernetes.io/instance"] = "test.test"

\* C1: whatever a pass deletes was, when the pass listed the store, a live
\* service account of the instance's namespace with both ownership labels and
\* an identity outside the desired set; and a pass that returns nil has
\* deleted every such object.
C1_DeletesExactlyTheOrphans ==
    /\ \A id \in Deleted :
         /\ liveAtList # <<>>
         /\ id \in DOMAIN liveAtList[1]
         /\ Owned(liveAtList[1][id])
         /\ id \notin DesiredIds
    /\ PassSucceeded =>
         Deleted = {id \in DOMAIN liveAtList[1] :
                        Owned(liveAtList[1][id]) /\ id \notin DesiredIds}

\* C1's case: a pass returned nil having deleted the orphan, while the desired
\* object, an object without the instance label and an object of another
\* namespace with both labels were live when it listed, and are live still.
C1_Witness ==
    /\ PassSucceeded
    /\ Deleted = {OrphanId}
    /\ DesiredIds = {CollectorId}
    /\ CollectorId \in DOMAIN liveAtList[1] /\ CollectorId \in DOMAIN store
    /\ ForeignId \in DOMAIN liveAtList[1] /\ ForeignId \in DOMAIN store
    /\ Owned([liveAtList[1][ForeignId] EXCEPT !.ns = "test"])

\* C2: a patch is issued for an existing desired object only when the merged
\* object differs from the object read.
C2_PatchOnlyWhenChanged ==
    \A i \in CallIndexes("Patch", "ok") : calls[i].sent # calls[i].read

\* C3: a patch against an object that was modified after the reconciler read it
\* is rejected: no patch is applied to an object whose version has moved on.
C3_StalePatchRejected ==
    \A i \in CallIndexes("Patch", "ok") : calls[i].before.rv = calls[i].read.rv

\* C4: a NotFound from Get is followed by the Create of that object with the
\* controller reference to the instance, an object a pass created is owned by
\* the instance, a successful Create lets the pass go on, and when the pass
\* returns an error its last call is the one that failed, never a NotFound Get.
C4_NotFoundRoutesToCreate ==
    /\ \A i \in CallIndexes("Get", "NotFound") :
         IF i = Len(calls)
         THEN pc = "create" /\ err = "none"
         ELSE /\ calls[i + 1].op = "Create"
              /\ calls[i + 1].id = calls[i].id
    /\ \A i \in CallIndexes("Create", "ok") :
         /\ calls[i].sent.owner = <<ControllerReference>>
         /\ i = Len(calls) => pc = "expected" /\ err = "none"
    /\ \A id \in ours : store[id].owner = <<ControllerReference>>
    /\ err # "none" =>
         /\ calls # <<>>
         /\ calls[Len(calls)].res \in {"Error", "AlreadyExists"} \/
            (calls[Len(calls)].res = "NotFound" /\ calls[Len(calls)].op # "Get")

\* C4's case: Get returned NotFound, the object was created, the pass went on
\* and returned nil.
C4_Witness ==
    /\ PassSucceeded
    /\ CallIndexes("Get", "NotFound") # {}
    /\ CallIndexes("Create", "ok") # {}
    /\ CollectorId \in ours

ErrorOf(op) ==
    CASE op = "Get" -> "get" [] op = "Create" -> "create" [] op = "Patch" -> "patch"
      [] op = "List" -> "list" [] OTHER -> "delete"

Failed(c) == c.res # "ok" /\ ~(c.op = "Get" /\ c.res = "NotFound")

\* C5: a failed call (any error but a Get's NotFound) is the last call of its
\* pass and its error is what the pass returns; a pass that failed while
\* creating or updating issued neither List nor Delete.
C5_ErrorAbortsThePass ==
    /\ \A i \in 1..Len(calls) :
         Failed(calls[i]) =>
            /\ i = Len(calls)
            /\ pc = "done"
            /\ err = ErrorOf(calls[i].op)
    /\ err # "none" => calls # <<>> /\ Failed(calls[Len(calls)])
    /\ err \in {"get", "create", "patch"} =>
         \A i \in 1..Len(calls) : calls[i].op \notin {"List", "Delete"}

\* C5's case: the pass deleted one object, the next Delete failed, and the
\* pass returned that error.
C5_Witness ==
    /\ pc = "done"
    /\ err = "delete"
    /\ Len(calls) >= 2
    /\ calls[Len(calls)].op = "Delete" /\ calls[Len(calls)].res = "Error"
    /\ items # <<>>

MapKept(before, after, desired) ==
    /\ DOMAIN before \subseteq DOMAIN after
    /\ \A k \in DOMAIN before \ DOMAIN desired : after[k] = before[k]
    /\ \A k \in DOMAIN desired : k \in DOMAIN after /\ after[k] = desired[k]

\* C6: after a merge the live object has every label and annotation it had
\* under a key the desired object lacks, the desired value under every key of
\* the desired object, and no key less.
C6_MergeKeepsAndOverwrites ==
    \A i \in CallIndexes("Patch", "ok") :
        /\ MapKept(calls[i].before.labels, calls[i].after.labels,
                   calls[i].desired.labels)
        /\ MapKept(calls[i].before.annotations, calls[i].after.annotations,
                   calls[i].desired.annotations)

\* C7: once a pass returns nil for an instance that requires no service
\* account, no service account an earlier pass created (and nobody else has
\* touched) is left in the store.
C7_CreatedAccountIsCollected ==
    (PassSucceeded /\ desiredServiceAccounts(instance) = <<>>) => ours = {}

\* An uninterrupted pass on store s: create or patch each desired object ...
RECURSIVE ExpectedApplied(_, _)
ExpectedApplied(s, desired) ==
    IF desired = <<>> THEN s
    ELSE LET d == SetControllerReference(Head(desired))
             id == ObjectId(d)
             s1 == IF id \in DOMAIN s
                   THEN [s EXCEPT ![id] =
                            ApplyPatch(s[id], MergeFrom(s[id], Merge(s[id], d)))]
                   ELSE With(s, id, [d EXCEPT !.rv = 1])
         IN  ExpectedApplied(s1, Tail(desired))

\* ... then delete what the selector lists and the desired set lacks.
UninterruptedPass(s, inst) ==
    LET desired == desiredServiceAccounts(inst)
        s1 == ExpectedApplied(s, desired)
        gone == {id \in DOMAIN s1 : MatchesSelector(s1[id]) /\ ~Kept(s1[id], desired)}
    IN  [id \in DOMAIN s1 \ gone |-> s1[id]]

\* C8: with no external or instance edit in between, a pass that follows a
\* successful pass creates nothing, deletes nothing and leaves the store as
\* that pass left it; and a pass that returns nil, whatever passes were
\* aborted before it, leaves the store as one uninterrupted pass from the
\* state they started in would.
C8_Idempotent ==
    /\ (clean /\ prevEnd # <<>>) =>
         /\ store = prevEnd[1]
         /\ CallIndexes("Create", "ok") = {}
         /\ CallIndexes("Delete", "ok") = {}
    /\ (clean /\ PassSucceeded) => store = UninterruptedPass(base[1], instance)

\* C8's case: a pass was aborted after it had written, the next pass returned
\* nil, and nothing else touched the store.
C8_Witness ==
    /\ clean
    /\ PassSucceeded
    /\ passes = 2
    /\ prevEnd = <<>>
    /\ store # base[1]
    /\ CallIndexes("Patch", "ok") # {}
    /\ CallIndexes("Delete", "ok") # {}

(***************************************************************************)
(* The collector's rendered objects, for an instance in deployment mode.   *)
(***************************************************************************)
Rendered(kind, name) == [kind |-> kind, name |-> name]

\* The objects the builder renders, by kind and name, in order.
BuildCollector(inst) ==
    << [kind |-> "Deployment", name |-> InstanceName \o "-collector",
        serviceAccountName |-> WorkloadServiceAccountName(inst)],
       Rendered("ConfigMap", InstanceName \o "-collector") >> \o
    (IF inst.serviceAccount = ""
     THEN <<Rendered("ServiceAccount", CollectorServiceAccountName)>>
     ELSE <<>>) \o
    << Rendered("Service", InstanceName \o "-collector"),
       Rendered("Service", InstanceName \o "-collector-headless"),
       Rendered("Service", InstanceName \o "-collector-monitoring") >>

RenderedOfKind(objs, kind) == {i \in 1..Len(objs) : objs[i].kind = kind}

\* C9: the pass works on exactly one desired service account, the collector's,
\* when the mode is not sidecar and no override is given, and on none
\* otherwise; with an override the rendered set holds no service account and
\* the workload names the override.
C9_DesiredServiceAccounts ==
    /\ pc # "idle" =>
         LET gets == {i \in 1..Len(calls) : calls[i].op = "Get"}
             n == IF instance.mode # "sidecar" /\ instance.serviceAccount = ""
                  THEN 1 ELSE 0
         IN  /\ calls = <<>> => Len(queue) = n
             /\ Cardinality(gets) <= n
             /\ PassSucceeded => Cardinality(gets) = n
             /\ \A i \in 1..Len(queue) :
                    queue[i].name = "test-collector" /\ queue[i].ns = "test"
             /\ \A i \in gets : calls[i].id = <<"test", "test-collector">>
    /\ (instance.mode = "deployment" /\ instance.serviceAccount # "") =>
         /\ RenderedOfKind(BuildCollector(instance), "ServiceAccount") = {}
         /\ \A i \in RenderedOfKind(BuildCollector(instance), "Deployment") :
                BuildCollector(instance)[i].serviceAccountName = instance.serviceAccount

\* C9's case: a pass for an instance with an override ran and returned nil
\* without a Get, after a pass for the instance without it had created the
\* collector's service account.
C9_Witness ==
    /\ PassSucceeded
    /\ instance.mode = "deployment"
    /\ instance.serviceAccount = "my-special-sa"
    /\ CallIndexes("Get", "ok") = {} /\ CallIndexes("Get", "NotFound") = {}
    /\ CollectorId \in ours

(***************************************************************************)
(* The upgrade chain's properties.                                         *)
(***************************************************************************)
StepVersions == [i \in 1..Len(Steps) |-> Steps[i].version]

\* Semantic-version order, spelled out.
Above(a, b) ==
    IF b = <<>> THEN TRUE
    ELSE (a[1] * 1000000 + a[2] * 1000 + a[3]) > (b[1] * 1000000 + b[2] * 1000 + b[3])

\* The registry's versions above v, in registry order.
RECURSIVE VersionsAbove(_, _)
VersionsAbove(vs, v) ==
    IF vs = <<>> THEN <<>>
    ELSE (IF Above(Head(vs), v) THEN <<Head(vs)>> ELSE <<>>) \o
         VersionsAbove(Tail(vs), v)

IsPrefix(p, q) == Len(p) <= Len(q) /\ \A i \in 1..Len(p) : p[i] = q[i]

\* C10: the steps invoked so far are, in strictly increasing version order, the
\* first of the registry's steps above the stored version; a chain that ends
\* without a failed step has invoked exactly the steps above the stored
\* version: 0.31.0 then 0.40.0 for 0.2.10, only 0.40.0 for 0.35.0, every step
\* for an absent version.
C10_StepsInOrder ==
    /\ upPc # "idle" =>
         /\ \A i \in 1..Len(upRan) : \A j \in 1..Len(upRan) :
                i < j => Above(upRan[j], upRan[i])
         /\ IsPrefix(upRan, VersionsAbove(StepVersions, upInput.version))
         /\ (upPc = "done" /\ upErr = "none") =>
              /\ upRan = VersionsAbove(StepVersions, upInput.version)
              /\ upInput.version = <<0, 2, 10>> => upRan = << <<0, 31, 0>>, <<0, 40, 0>> >>
              /\ upInput.version = <<0, 35, 0>> => upRan = << <<0, 40, 0>> >>
              /\ upInput.version = <<>> =>
                    upRan = << <<0, 2, 10>>, <<0, 31, 0>>, <<0, 40, 0>> >>

\* C10's case: the chain ran from stored version 0.2.10 on a configuration
\* that 0.31.0 rewrote, and ended having invoked 0.31.0 and then 0.40.0.
C10_Witness ==
    /\ upPc = "done"
    /\ upErr = "none"
    /\ upInput.version = <<0, 2, 10>>
    /\ upRan = << <<0, 31, 0>>, <<0, 40, 0>> >>
    /\ upSpec.config # upInput.config
    /\ upSpec.version = <<0, 40, 0>>

\* C11: when a step fails the chain is over with that failure, the failing
\* step is the last one invoked and the registry is not advanced past it, the
\* specification carries the version of the last step that succeeded (the
\* stored version if none did), and its configuration is exactly the input
\* text: the only step that can fail, upgrade0_31_0, leaves it as it was.
C11_FailedStepStopsTheChain ==
    (upPc # "idle" /\ upErr # "none") =>
        /\ upPc = "done"
        /\ upRan # <<>>
        /\ upRan[Len(upRan)] = <<0, 31, 0>>
        /\ upIdx = 2
        /\ \A i \in 1..Len(upRan) : upRan[i] # <<0, 40, 0>>
        /\ upSpec.version = IF Len(upRan) = 1 THEN upInput.version
                            ELSE upRan[Len(upRan) - 1]
        /\ upSpec.config = upInput.config

\* C11's case: from an absent version, 0.2.10 succeeded and 0.31.0 then failed
\* to parse the configuration; the chain ended at 0.2.10 with the parse error.
C11_Witness ==
    /\ upPc = "done"
    /\ upErr = "parse"
    /\ upInput.version = <<>>
    /\ upRan = << <<0, 2, 10>>, <<0, 31, 0>> >>
    /\ upSpec.version = <<0, 2, 10>>
    /\ upSpec.config.kind = "invalid"

(***************************************************************************)
(* The properties of the steps, called one at a time.                      *)
(***************************************************************************)
StepCalls(step) == {i \in 1..Len(stepLog) : stepLog[i].step = step}

\* C12: upgrade0_31_0 applied to what upgrade0_31_0 returned (without error)
\* returns a specification with that same configuration and records no event.
C12_StepIdempotent ==
    \A i \in StepCalls("upgrade0_31_0") :
        (/\ i > 1
         /\ stepLog[i - 1].step = "upgrade0_31_0"
         /\ stepLog[i - 1].err = "none"
         /\ ~stepLog[i].panicked) =>
            /\ stepLog[i].err = "none"
            /\ stepLog[i].returned = stepLog[i].given
            /\ stepLog[i].events = <<>>

\* A configuration in which upgrade0_31_0 has nothing to change: it is empty,
\* or it parses and either has no receivers map or has no influxdb receiver
\* with a metrics_schema field.
NothingToChange(text) ==
    \/ text.kind = "empty"
    \/ /\ text.kind = "yaml"
       /\ \/ ~text.doc.receivers.isMap
          \/ \A k \in DOMAIN text.doc.receivers.entries :
                 (k \in {"influxdb", "influxdb/2"}
                    /\ text.doc.receivers.entries[k].isMap) =>
                 text.doc.receivers.entries[k].fields \cap
                     {"metrics_schema", "metrics_schema_v2"} = {}

\* C13: upgrade0_2_10 always, and upgrade0_31_0 on a configuration with
\* nothing to change, returns no error and a specification whose configuration
\* is the input text.
C13_NoOpWhenNothingToChange ==
    \A i \in 1..Len(stepLog) :
        (\/ stepLog[i].step = "upgrade0_2_10"
         \/ stepLog[i].step = "upgrade0_31_0" /\ NothingToChange(stepLog[i].given)) =>
            /\ ~stepLog[i].panicked
            /\ stepLog[i].err = "none"
            /\ stepLog[i].returned = stepLog[i].given

\* C14: after a step returns, the specification object the caller passed in
\* still has the configuration it had when the step was called.
C14_CallerObjectUntouched ==
    stepLog # <<>> => otelcol.config = stepLog[Len(stepLog)].given

\* C15: upgrade0_31_0 ends every call on a configuration that parses by
\* returning a specification or an error: it never panics.
C15_NeverPanics ==
    \A i \in StepCalls("upgrade0_31_0") :
        stepLog[i].given.kind = "yaml" => ~stepLog[i].panicked

(***************************************************************************)
(* The instrumentation upgrade's properties.                               *)
(***************************************************************************)
\* C16: ManagedInstances issues an Update for a listed Instrumentation only
\* when what upgrade returned differs from the listed object.
C16_UpdateOnlyWhenChanged ==
    \A k \in 1..Len(instUpdates) : instUpdates[k].sent # instUpdates[k].listed

(***************************************************************************)
(* The builder's properties.                                               *)
(***************************************************************************)
AllocatorRole(o) ==
    /\ "app.kubernetes.io/component" \in DOMAIN o.labels
    /\ o.labels["app.kubernetes.io/component"] = "opentelemetry-targetallocator"

NotAllocatorRole(o) == ~AllocatorRole(o)

CountOfKind(objs, kinds) == Cardinality({i \in 1..Len(objs) : objs[i].kind \in kinds})

\* The rendered objects of the given kinds and name.
Named(kinds, name) ==
    {i \in 1..Len(rendered) : rendered[i].kind \in kinds /\ rendered[i].name = name}

\* The receivers of the specification that declare a listener, with its port.
DeclaredListeners ==
    {r \in DOMAIN params.config.receivers : Len(params.config.receivers[r].endpoint) = 2}

C20_OwnershipLabels ==
    buildPc = "rendered" =>
        \A i \in 1..Len(rendered) :
            LET l == rendered[i].labels
            IN  /\ {"app.kubernetes.io/managed-by", "app.kubernetes.io/part-of",
                    "app.kubernetes.io/component", "app.kubernetes.io/instance"}
                       \subseteq DOMAIN l
                /\ l["app.kubernetes.io/managed-by"] = "amazon-cloudwatch-agent-operator"
                /\ l["app.kubernetes.io/instance"] = "test.test"

\* C21: parsing an empty or blank text gives the empty document and no
\* error, and upgrade0_31_0 given an empty configuration returns it as it was
\* given, with no error and no event.
C21_EmptyTextIsEmptyDocument ==
    /\ \A i \in 1..Len(parsed) :
           parsed[i].text.kind \in {"empty", "blank"} =>
               /\ parsed[i].result.err = "none"
               /\ "doc" \in DOMAIN parsed[i].result
               /\ parsed[i].result.doc = EmptyDocument
    /\ \A i \in StepCalls("upgrade0_31_0") :
           stepLog[i].given.kind \in {"empty", "blank"} =>
               /\ stepLog[i].returned = stepLog[i].given
               /\ stepLog[i].err = "none"
               /\ stepLog[i].events = <<>>
               /\ ~stepLog[i].panicked

\* The empty text was parsed and upgrade0_31_0 was called on it.
C21_Witness ==
    /\ parsed # <<>>
    /\ parsed[1].text = EmptyText
    /\ \E i \in StepCalls("upgrade0_31_0") : stepLog[i].given = EmptyText

\* C22: parsing a malformed text gives no document and ErrInvalidYAML; the
\* parser returns a document or an error, never both, and no other error.
C22_InvalidTextIsErrInvalidYAML ==
    \A i \in 1..Len(parsed) :
        LET r == parsed[i].result
        IN  /\ parsed[i].text.kind = "invalid" => r.err = "ErrInvalidYAML"
            /\ r.err \in {"none", "ErrInvalidYAML"}
            /\ r.err = "none" <=> "doc" \in DOMAIN r

\* The malformed text was parsed.
C22_Witness ==
    /\ parsed # <<>>
    /\ parsed[1].text = InvalidText
    /\ parsed[1].result.err = "ErrInvalidYAML"

\* The calls of upgrade0_31_0 that returned without error on a configuration
\* whose receivers section is a map.
ReturnedOnReceivers ==
    {i \in StepCalls("upgrade0_31_0") :
        /\ ~stepLog[i].panicked
        /\ stepLog[i].err = "none"
        /\ stepLog[i].given.kind = "yaml"
        /\ stepLog[i].given.doc.receivers.isMap}

\* The receivers of the configuration call i was given, and of the one it
\* returned, as the parser reads them.
ReceiversGiven(i) == ConfigFromString(stepLog[i].given).doc.receivers.entries
ReceiversReturned(i) == ConfigFromString(stepLog[i].returned).doc.receivers.entries

\* The fields receiver k has in the given configuration and not in the
\* returned one.
Dropped(i, k) ==
    IF k \in DOMAIN ReceiversReturned(i)
    THEN FieldsOf(ReceiversGiven(i)[k]) \ FieldsOf(ReceiversReturned(i)[k])
    ELSE FieldsOf(ReceiversGiven(i)[k])

\* C24: after upgrade0_31_0 returns without error on a configuration whose
\* receivers section is a map, no receiver of the returned configuration
\* whose name begins with influxdb has a field whose key begins with
\* metrics_schema.
C24_NoDeprecatedFieldLeft ==
    \A i \in ReturnedOnReceivers :
        \A k \in DOMAIN ReceiversReturned(i) \cap InfluxdbPrefixed :
            FieldsOf(ReceiversReturned(i)[k]) \cap MetricsSchemaPrefixed = {}

\* C25: upgrade0_31_0 removes only fields keyed exactly metrics_schema, and
\* only from influxdb receivers; the other receivers, the other fields and
\* the other top-level sections parse to the same content after as before.
C25_RemovesOnlyMetricsSchema ==
    \A i \in ReturnedOnReceivers :
        /\ ConfigFromString(stepLog[i].returned).doc.sections =
               ConfigFromString(stepLog[i].given).doc.sections
        /\ DOMAIN ReceiversReturned(i) = DOMAIN ReceiversGiven(i)
        /\ \A k \in DOMAIN ReceiversGiven(i) :
               /\ ReceiversReturned(i)[k].isMap = ReceiversGiven(i)[k].isMap
               /\ FieldsOf(ReceiversReturned(i)[k]) \subseteq FieldsOf(ReceiversGiven(i)[k])
               /\ Dropped(i, k) \subseteq {"metrics_schema"}
               /\ Dropped(i, k) # {} => k \in InfluxdbPrefixed

\* The events of call i that name receiver k.
EventsNaming(i, k) ==
    {j \in 1..Len(stepLog[i].events) : stepLog[i].events[j].receiver = k}

\* C26: upgrade0_31_0 records one event, naming the receiver, for each field
\* the returned configuration has lost, and no other event.
C26_OneEventPerDroppedField ==
    \A i \in ReturnedOnReceivers :
        /\ \A k \in DOMAIN ReceiversGiven(i) :
               Cardinality(EventsNaming(i, k)) = Cardinality(Dropped(i, k))
        /\ \A j \in 1..Len(stepLog[i].events) :
               stepLog[i].events[j].receiver \in DOMAIN ReceiversGiven(i)

\* The calls of the pass are in the order of ServiceAccounts: no Get, Create
\* or Patch after a List or a Delete, every Delete after a successful List,
\* and a List only after each desired object had a successful Create or Patch.
CallsInOrder ==
    /\ \A i, j \in 1..Len(calls) :
           (i < j /\ calls[i].op \in {"List", "Delete"}) =>
               calls[j].op \notin {"Get", "Create", "Patch"}
    /\ \A j \in CallIndexes("Delete", "ok") \cup CallIndexes("Delete", "Error")
                \cup CallIndexes("Delete", "NotFound") :
           \E i \in CallIndexes("List", "ok") : i < j
    /\ \A j \in 1..Len(calls) :
           calls[j].op \in {"List", "Delete"} =>
               \A id \in DesiredIds :
                   \E i \in CallIndexes("Create", "ok") \cup CallIndexes("Patch", "ok") :
                       i < j /\ calls[i].id = id

\* C27: within one pass every Get, Create and Patch for the desired set is
\* issued before the List and before any Delete, a Delete is never issued
\* before all desired objects were created or patched successfully, and the
\* calls are issued one at a time.
C27_ExpectedBeforeDelete ==
    [][/\ CallsInOrder'
       /\ calls' # calls =>
              \/ calls' = <<>>
              \/ \E c \in {calls'[Len(calls')]} : calls' = Append(calls, c)]_vars

\* C27's case: a pass created or patched the desired account, listed, and
\* deleted an object that is not desired.
C27_Witness ==
    /\ DesiredIds # {}
    /\ CallIndexes("Delete", "ok") # {}
    /\ CallIndexes("Create", "ok") \cup CallIndexes("Patch", "ok") # {}

\* The names of the instances handled so far and of those still to handle.
NamesOf(seq) == [i \in 1..Len(seq) |-> seq[i].name]

\* C28: ManagedInstances returns an error only when the List call fails; a
\* failed Update is skipped, every listed instance is handled, in the order
\* listed, and the call returns nil.
C28_OnlyListFails ==
    /\ instErr # "none" =>
           /\ instErr = "list"
           /\ instPc = "done"
           /\ instListed = <<>>
           /\ instHandled = <<>>
           /\ instUpdates = <<>>
    /\ instListed # <<>> =>
           /\ instErr = "none"
           /\ NamesOf(instHandled) \o NamesOf(instItems) = instListed[1]
           /\ instPc = "done" => NamesOf(instHandled) = instListed[1]

\* C28's case: the Update of the first listed instance failed, the second
\* instance was handled after it, and the call returned nil.
C28_Witness ==
    /\ instPc = "done"
    /\ instErr = "none"
    /\ Len(instHandled) = 2
    /\ instUpdates # <<>>
    /\ instUpdates[1].res = "Error"
    /\ instUpdates[1].name = instHandled[1].name

\* The Java image of the instance is the annotated default, and the gate on.
JavaUpgradeDue(inst) ==
    /\ inst.javaAnnotation # ""
    /\ gateEnabled["java"]
    /\ inst.javaImage = inst.javaAnnotation

\* C29: upgrade returns a copy with the Java image and the Java annotation
\* set to the operator's default image when the annotation is set, the Java
\* gate enabled and the image the annotated one; in every other case the
\* copy equals the input; the input is as it was given.
C29_UpgradeOnlyAnnotatedDefault ==
    \A i \in 1..Len(instHandled) :
        LET h == instHandled[i]
        IN  /\ JavaUpgradeDue(h.given) =>
                   h.returned = [h.given EXCEPT !.javaImage = DefaultAutoInstJava,
                                                !.javaAnnotation = DefaultAutoInstJava]
            /\ ~JavaUpgradeDue(h.given) => h.returned = h.given
            /\ h.input = h.given

\* C29's case: one instance was upgraded from an older default image, and one
\* with a Python annotation and a user's Java image was returned as given
\* while the Python gate is disabled.
C29_Witness ==
    /\ \E i \in 1..Len(instHandled) :
           /\ JavaUpgradeDue(instHandled[i].given)
           /\ instHandled[i].returned # instHandled[i].given
    /\ \E i \in 1..Len(instHandled) :
           /\ instHandled[i].given.pythonAnnotation # ""
           /\ ~gateEnabled["python"]
           /\ instHandled[i].returned = instHandled[i].given

\* The environment variables that carry an exporter endpoint.
ExporterNames ==
    {"OTEL_EXPORTER_OTLP_TRACES_ENDPOINT", "OTEL_AWS_SMP_EXPORTER_ENDPOINT",
     "OTEL_AWS_APP_SIGNALS_EXPORTER_ENDPOINT"}

\* The endpoint each of them is expected to carry under a scheme.
ExpectedEndpoint(name, scheme) ==
    IF name = "OTEL_EXPORTER_OTLP_TRACES_ENDPOINT"
    THEN IF scheme = "https"
         THEN "https://cloudwatch-agent.amazon-cloudwatch:4316/v1/traces"
         ELSE "http://cloudwatch-agent.amazon-cloudwatch:4316/v1/traces"
    ELSE IF scheme = "https"
         THEN "https://cloudwatch-agent.amazon-cloudwatch:4316/v1/metrics"
         ELSE "http://cloudwatch-agent.amazon-cloudwatch:4316/v1/metrics"

\* An environment with the exporter endpoints blanked.
WithoutEndpoints(env) ==
    [i \in DOMAIN env |-> IF env[i].name \in ExporterNames
                          THEN [name |-> env[i].name, value |-> ""]
                          ELSE env[i]]

\* An Instrumentation with the exporter endpoints of both languages blanked.
WithoutExporterEndpoints(inst) ==
    [inst EXCEPT !.java.env = WithoutEndpoints(@),
                 !.python.env = WithoutEndpoints(@)]

NamesIn(env) == {env[i].name : i \in DOMAIN env}

\* C23: the exporter endpoints of Java and Python in the default
\* Instrumentation use https exactly when AppSignals has TLS configured and
\* http otherwise; the sampler endpoint uses http in both cases; every other
\* field is the same in both cases.
C23_SchemeFollowsTLS ==
    /\ \A b \in built :
          LET scheme == IF b.config.tls # NoTLS THEN "https" ELSE "http"
          IN  \A env \in {b.got.java.env, b.got.python.env} :
                  /\ {"OTEL_EXPORTER_OTLP_TRACES_ENDPOINT",
                      "OTEL_AWS_APP_SIGNALS_EXPORTER_ENDPOINT",
                      "OTEL_TRACES_SAMPLER_ARG"} \subseteq NamesIn(env)
                  /\ \A i \in DOMAIN env :
                        /\ env[i].name \in ExporterNames =>
                               env[i].value = ExpectedEndpoint(env[i].name, scheme)
                        /\ env[i].name = "OTEL_TRACES_SAMPLER_ARG" =>
                               env[i].value =
                                   "endpoint=http://cloudwatch-agent.amazon-cloudwatch:2000"
    /\ \A b1, b2 \in built :
          WithoutExporterEndpoints(b1.got) = WithoutExporterEndpoints(b2.got)

\* C23's case: the default was built for a configuration with TLS and for
\* one without.
C23_Witness ==
    /\ \E b \in built : b.config.tls = NoTLS
    /\ \E b \in built : b.config.tls # NoTLS

\* C30: the defaulter leaves a managed-by label, a Java image and Java
\* resource limits and requests the user set as they are; after it ran the
\* managed-by label is set, the Java image is set when the operator has a
\* default, and the Java default-image annotation is the operator's default.
C30_DefaulterKeepsUserValues ==
    \A i \in 1..Len(defaulted) :
        LET g == defaulted[i].given
            l == defaulted[i].left
        IN  /\ g.labels.value # "" => l.labels.value = g.labels.value
            /\ g.javaImage # "" => l.javaImage = g.javaImage
            /\ ~g.limits.nil => l.limits = g.limits
            /\ ~g.requests.nil => l.requests = g.requests
            /\ ~l.labels.nil /\ l.labels.value # ""
            /\ javaDefault # "" => l.javaImage # ""
            /\ ~l.annotations.nil /\ l.annotations.value = javaDefault

\* C30's case: an object with a user's label, image, limits and requests and
\* the annotation of an older default went through the defaulter.
C30_Witness ==
    /\ defaulted # <<>>
    /\ defaulted[1].left = admitted
    /\ defaulted[1].given.labels.value = "helm"
    /\ defaulted[1].given.javaImage = "java:custom"
    /\ ~defaulted[1].given.limits.nil
    /\ ~defaulted[1].given.requests.nil
    /\ defaulted[1].given.annotations.value = "java:old"
    /\ javaDefault = DefaultAutoInstJava

\* The events of a sequence, as a set.
EventSet(events) == {events[j] : j \in 1..Len(events)}

\* C36: what upgrade0_31_0 returns and records is determined by the
\* configuration it is given: every order of iterating the receivers and
\* their fields that lets the step return gives the configuration, the error
\* and the set of events of the call that was made.
C36_OrderIndependent ==
    \A i \in StepCalls("upgrade0_31_0") :
        ~stepLog[i].panicked =>
            \A r \in upgrade0_31_0(stepLog[i].given) :
                ~r.panicked =>
                    /\ r.config = stepLog[i].returned
                    /\ r.err = stepLog[i].err
                    /\ EventSet(r.events) = EventSet(stepLog[i].events)

\* The argument is a number between 0 and 1, both included.
InUnitRange(argument) == argument \in {"0", "0.25", "1"}

\* Every name of the candidate's two environments has one of the prefixes.
NamesAllowed(names) ==
    \A i \in 1..Len(names) :
        HasPrefix(names[i], envPrefix) \/ HasPrefix(names[i], envSplunkPrefix)

\* C31: validation rejects an unknown sampler type, accepts an empty one with
\* the warning "sampler type not set", and for the ratio-based types accepts
\* a non-empty argument only if it is a number from 0 to 1; a known type with
\* such an argument, or none, is not rejected for its sampler.
C31_KnownSamplersOnly ==
    \A i \in 1..Len(verdict) :
        LET v == verdict[i]
            accepted == v.err = NoError
            envFine == NamesAllowed(candidate.env \o candidate.javaEnv)
        IN  /\ candidate.samplerType = "unknown" => ~accepted
            /\ candidate.samplerType = "" =>
                   /\ v.warnings = <<"sampler type not set">>
                   /\ envFine => accepted
            /\ (candidate.samplerType \in RatioSamplers
                  /\ candidate.samplerArgument # "" /\ accepted) =>
                   InUnitRange(candidate.samplerArgument)
            /\ (candidate.samplerType \in RatioSamplers /\ envFine
                  /\ (candidate.samplerArgument = ""
                        \/ InUnitRange(candidate.samplerArgument))) => accepted
            /\ (candidate.samplerType \in PlainSamplers /\ envFine) => accepted

\* The first name of the two environments, Spec.Env first, without a prefix.
FirstOffending(names) ==
    names[CHOOSE i \in 1..Len(names) :
              /\ ~NamesAllowed(<<names[i]>>)
              /\ \A j \in 1..(i - 1) : NamesAllowed(<<names[j]>>)]

\* C32: create, update and delete validation accept an Instrumentation only
\* if every name in Spec.Env and Spec.Java.Env has one of the two prefixes;
\* when the sampler passes and a name has neither, the error reports the
\* first such name and the warnings collected so far are returned with it.
C32_EnvNamesPrefixed ==
    \A i \in 1..Len(verdict) :
        LET v == verdict[i]
            names == candidate.env \o candidate.javaEnv
            sampler == validateSampler(candidate.samplerType,
                                       candidate.samplerArgument)
        IN  /\ v.err = NoError => NamesAllowed(names)
            /\ (sampler.err = NoError /\ ~NamesAllowed(names)) =>
                   /\ v.err.msg = "env name should start with \"OTEL_\" or \"SPLUNK_\""
                   /\ v.err.about = FirstOffending(names)
                   /\ v.warnings = sampler.warnings

\* C32's case: delete validation of an object without sampler type whose
\* second name of Spec.Env is the first without a prefix.
C32_Witness ==
    /\ verdict # <<>>
    /\ verdict[1].op = "delete"
    /\ candidate.samplerType = ""
    /\ Len(candidate.env) = 2
    /\ NamesAllowed(<<candidate.env[1]>>)
    /\ ~NamesAllowed(<<candidate.env[2]>>)
    /\ verdict[1].err.about = candidate.env[2]
    /\ verdict[1].warnings # <<>>


\* The steps of one call of AutoDetect, in the order they happened.
StepsOf(call, op) ==
    {i \in 1..Len(detectLog) : detectLog[i].call = call /\ detectLog[i].op = op}

TheStep(call, op) == detectLog[CHOOSE i \in StepsOf(call, op) : TRUE]

HasReturned(call) == StepsOf(call, "return") # {}

\* C33: a call whose probe fails returns the error, leaves the stored
\* availability as it was and invokes no callback; a call whose probe
\* succeeds returns nil, and with one goroutine calling, OpenShiftRoutes()
\* then is the probed value.
C33_ProbeErrorLeavesStore ==
    \A call \in 1..Begun :
        HasReturned(call) =>
            IF TheStep(call, "probe").failed
            THEN /\ TheStep(call, "return").failed
                 /\ TheStep(call, "return").seen = TheStep(call, "probe").seen
                 /\ StepsOf(call, "set") = {}
                 /\ StepsOf(call, "notify") = {}
            ELSE /\ ~TheStep(call, "return").failed
                 /\ TheStep(call, "return").seen = TheStep(call, "probe").value

\* A probe fails while the store holds "available", after a call that stored it.
C33_Witness ==
    \E call \in 1..Begun :
        /\ HasReturned(call)
        /\ TheStep(call, "probe").failed
        /\ TheStep(call, "probe").seen = OpenShiftRoutesAvailable
        /\ \E before \in 1..(call - 1) :
              /\ HasReturned(before)
              /\ ~TheStep(before, "probe").failed
              /\ TheStep(before, "return").seen = OpenShiftRoutesAvailable


\* The position in the history of a step of a call.
PositionOf(call, op) == CHOOSE i \in StepsOf(call, op) : TRUE

\* C34: the callbacks are invoked exactly when the probed availability
\* differs from the stored one; the new value is stored first, so the
\* callback reads the new value from OpenShiftRoutes(); the store starts as
\* "not available".
C34_NotifyIffChanged ==
    /\ detectLog = <<>> => current = OpenShiftRoutesNotAvailable
    /\ \A call \in 1..Begun :
          (HasReturned(call) /\ ~TheStep(call, "probe").failed) =>
              /\ StepsOf(call, "notify") # {}
                     <=> TheStep(call, "get").seen # TheStep(call, "probe").value
              /\ Cardinality(StepsOf(call, "notify")) <= 1
              /\ StepsOf(call, "notify") # {} =>
                     /\ StepsOf(call, "set") # {}
                     /\ PositionOf(call, "set") < PositionOf(call, "notify")
                     /\ TheStep(call, "set").value = TheStep(call, "probe").value
                     /\ TheStep(call, "notify").seen = TheStep(call, "probe").value

\* One call has notified, reading "available"; a later call probed the same
\* value and has returned without notifying.
C34_Witness ==
    \E call \in 1..Begun, later \in 1..Begun :
        /\ call < later
        /\ StepsOf(call, "notify") # {}
        /\ TheStep(call, "notify").seen = OpenShiftRoutesAvailable
        /\ HasReturned(later)
        /\ ~TheStep(later, "probe").failed
        /\ TheStep(later, "probe").value = OpenShiftRoutesAvailable
        /\ StepsOf(later, "notify") = {}

\* The calls whose callback failed.
CallbackFailed(call) ==
    /\ HasReturned(call)
    /\ StepsOf(call, "notify") # {}
    /\ TheStep(call, "notify").failed

\* C35: a failing callback does not fail the detection: the call returns
\* nil, the store keeps the newly detected value, and the next call that
\* probes the same value does not invoke the callbacks again.
C35_CallbackErrorIsLogged ==
    \A call \in 1..Begun :
        CallbackFailed(call) =>
            /\ ~TheStep(call, "return").failed
            /\ TheStep(call, "return").seen = TheStep(call, "probe").value
            /\ (/\ call + 1 <= Begun
                /\ HasReturned(call + 1)
                /\ ~TheStep(call + 1, "probe").failed
                /\ TheStep(call + 1, "probe").value = TheStep(call, "probe").value)
                   => StepsOf(call + 1, "notify") = {}

\* A callback failed, and the next call probed the same value and returned.
C35_Witness ==
    \E call \in 1..(Begun - 1) :
        /\ CallbackFailed(call)
        /\ HasReturned(call + 1)
        /\ ~TheStep(call + 1, "probe").failed
        /\ TheStep(call + 1, "probe").value = TheStep(call, "probe").value


\* The positions of the successful probes, and of those that found a value
\* other than the probe before them did (the first one: other than the
\* initial "not available").
Probes ==
    {i \in 1..Len(detectLog) :
        detectLog[i].op = "probe" /\ ~detectLog[i].failed}

ProbedBefore(i) ==
    IF \E j \in Probes : j < i
    THEN detectLog[CHOOSE j \in Probes :
                       j < i /\ \A k \in Probes : k < i => k <= j].value
    ELSE OpenShiftRoutesNotAvailable

DetectedChanges == {i \in Probes : detectLog[i].value # ProbedBefore(i)}

Notifications == {i \in 1..Len(detectLog) : detectLog[i].op = "notify"}

Quiescent == \A t \in DOMAIN task : task[t].pc = "idle"

\* C38: with the periodic goroutine and a direct caller interleaved, once
\* both are outside AutoDetect the callbacks have been invoked once for
\* each change of the detected availability, and the store holds the most
\* recently probed value.
C38_OncePerChange ==
    Quiescent =>
        /\ Cardinality(Notifications) = Cardinality(DetectedChanges)
        /\ Probes # {} =>
               current = ProbedBefore(Len(detectLog) + 1)


\* The objects the first pass after the change of the default has handled
\* without a failed Update, while the Java gate is enabled.
PassedOver ==
    {n \in InstrumentationNames :
        /\ \E i \in 1..Len(instHandled) : instHandled[i].name = n
        /\ \A i \in 1..Len(instUpdates) :
              instUpdates[i].name = n => instUpdates[i].res = "ok"}

\* C37: an image the user chose is never replaced, and an object whose image
\* the defaulter filled in has the operator's new default image once the
\* first pass after the change of the default is over, also when the
\* defaulter ran on the object between the change and the pass.
C37_DefaultedImageFollowsDefault ==
    /\ \A n \in InstrumentationNames :
          life.origin[n] = "user" => instStore[n].javaImage = "java:custom"
    /\ (instPc = "done" /\ instErr = "none" /\ gateEnabled["java"]) =>
          \A n \in PassedOver :
              life.origin[n] = "defaulter" =>
                  instStore[n].javaImage = DefaultAutoInstJava

====
